---- MODULE Spec2Model ----
(***************************************************************************)
(* Mindsky: the sky canvas (focus layout, drag, animation frames), the     *)
(* force simulator and node graph of services/physics.ts, and the puff     *)
(* morph of Cloud.ts.                                                      *)
(*                                                                         *)
(* Numbers: every coordinate, velocity, radius and puff value is a         *)
(* fixed-point integer, Scale units to one pixel.  Divisions truncate      *)
(* toward zero; square roots are integer square roots.                     *)
(***************************************************************************)
EXTENDS Integers, Sequences, FiniteSets, TLC

Scale == 100

None == "none"

\* ------------------------------------------------------------------------
\* Bounds of the model
\* ------------------------------------------------------------------------
MaxTicks == 2
MaxCommits == 3
MaxPointerEvents == 2
MaxFocusCommits == 4
MaxFocusTicks == 3
MaxForceSteps == 2
MaxMorphTicks == 26
MaxDragCalls == 5
MaxRefreshCalls == 2
MaxRefreshTicks == 3

\* ------------------------------------------------------------------------
\* config/layout.ts
\* ------------------------------------------------------------------------
TASK_ORBIT_RADIUS_MIN == 120
TASK_ORBIT_RADIUS_MAX == 160
MILESTONE_RADIUS == 80
TASK_RADIUS_BASE == 45
TASK_RADIUS_PER_SUBTASK == 5
SUBTASK_RADIUS == 20
REPULSION_STRENGTH == 150
DAMPING_PCT == 92
DRAG_PUSH_RADIUS == 50
DRAG_PUSH_STRENGTH == 4
DRAG_VELOCITY_TRANSFER_PCT == 30
MAX_VELOCITY == 5
PARENT_ATTRACTION_MILLI == 10
ORBIT_STIFFNESS_MILLI == 5
SUBTASK_ORBIT_RADIUS == 60
RELEASE_VELOCITY_MULTIPLIER == 3

\* ------------------------------------------------------------------------
\* Arithmetic helpers
\* ------------------------------------------------------------------------
Abs(a) == IF a < 0 THEN -a ELSE a

Max2(a, b) == IF a >= b THEN a ELSE b

Min2(a, b) == IF a <= b THEN a ELSE b

\* JS number division, truncated toward zero on the fixed-point grid
Div(a, b) == IF a >= 0 THEN a \div b ELSE -((-a) \div b)

RECURSIVE SqrtSearch(_, _, _)
SqrtSearch(n, lo, hi) ==
  IF lo >= hi THEN lo
  ELSE LET mid == (lo + hi + 1) \div 2
       IN IF mid * mid <= n THEN SqrtSearch(n, mid, hi)
                            ELSE SqrtSearch(n, lo, mid - 1)

\* Math.sqrt on the grid: the largest r with r*r <= n
ISqrt(n) == SqrtSearch(n, 0, 46340)

\* Math.cos / Math.sin in thousandths, for angles that are multiples of 30 degrees
CosTab == <<1000, 866, 500, 0, -500, -866, -1000, -866, -500, 0, 500, 866>>

Cos1000(deg) == CosTab[(((deg % 360) + 360) % 360) \div 30 + 1]

Sin1000(deg) == Cos1000(deg - 90)

RECURSIVE ConcatAll(_)
ConcatAll(ss) == IF Len(ss) = 0 THEN <<>> ELSE Head(ss) \o ConcatAll(Tail(ss))

\* ------------------------------------------------------------------------
\* The entity tree (SkyData.milestones): a fixed universe of entities, of
\* which the set `sky` is present
\* ------------------------------------------------------------------------
MilestoneIds == <<"M1", "M2">>

TaskIds(m) == IF m = "M1" THEN <<"T1", "T2">> ELSE <<>>

SubtaskIds(t) == IF t = "T1" THEN <<"S1">> ELSE IF t = "T2" THEN <<"S2">> ELSE <<>>

Milestones == {"M1", "M2"}
Tasks == {"T1", "T2"}
Subtasks == {"S1", "S2"}
Ids == Milestones \cup Tasks \cup Subtasks

TypeOf(id) == IF id \in Milestones THEN "milestone"
              ELSE IF id \in Tasks THEN "task" ELSE "subtask"

ParentOf(id) == IF id \in Tasks THEN "M1"
                ELSE IF id = "S1" THEN "T1" ELSE IF id = "S2" THEN "T2" ELSE None

Present(seq, skySet) == SelectSeq(seq, LAMBDA e : e \in skySet)

\* the trees the entity provider can deliver
SkySets == { {"M1", "M2", "T1", "S1"} \cup opt : opt \in SUBSET {"T2"} }

\* viewport (app.screen), in pixels
ScreenW == 400
ScreenH == 400

NoPos == [x |-> 0, y |-> 0, set |-> FALSE]

At(x, y) == [x |-> x, y |-> y, set |-> TRUE]

\* ------------------------------------------------------------------------
\* physics.ts: createNodes
\* ------------------------------------------------------------------------
Node(id, x, y, radius) ==
  [id |-> id, type |-> TypeOf(id), x |-> x, y |-> y, vx |-> 0, vy |-> 0,
   radius |-> radius, parentId |-> ParentOf(id)]

\* (mutation) the map of existing positions is never filled
ExistingPosEmpty(existing, id) == NoPos

\* existingPositions.get(id): the position of the last node carrying the id
ExistingPos(existing, id) ==
  LET hits == {i \in 1..Len(existing) : existing[i].id = id}
  IN IF hits = {} THEN NoPos
     ELSE LET last == CHOOSE i \in hits : \A j \in hits : j <= i
          IN At(existing[last].x, existing[last].y)

\* Math.random() * (MAX - MIN) is the caller-supplied draw rnd, in 0..(MAX-MIN) pixels
TaskOrbitRadius(rnd) == TASK_ORBIT_RADIUS_MIN * Scale + rnd * Scale

NewTaskPos(mx, my, j, taskCount, rnd) ==
  LET deg == IF taskCount > 1 THEN (j * 360) \div taskCount ELSE 0
      orbit == TaskOrbitRadius(rnd)
  IN At(mx + Div(Cos1000(deg) * orbit, 1000), my + Div(Sin1000(deg) * orbit, 1000))

\* (mutation) a reset: every task is laid out afresh on its orbit
TaskPosFresh(existing, t, mx, my, j, taskCount, rnd) ==
  NewTaskPos(mx, my, j, taskCount, rnd)

TaskPos(existing, t, mx, my, j, taskCount, rnd) ==
  LET e == ExistingPos(existing, t)
  IN IF e.set THEN e ELSE NewTaskPos(mx, my, j, taskCount, rnd)

NewSubtaskPos(tx, ty, k, n, taskRadius) ==
  LET deg == (k * 360) \div Max2(n, 1)
      orbit == taskRadius + SUBTASK_RADIUS * Scale + 20 * Scale
  IN At(tx + Div(Cos1000(deg) * orbit, 1000), ty + Div(Sin1000(deg) * orbit, 1000))

SubtaskPos(existing, s, tx, ty, k, n, taskRadius) ==
  LET e == ExistingPos(existing, s)
  IN IF e.set THEN e ELSE NewSubtaskPos(tx, ty, k, n, taskRadius)

\* stored database position, else the circle layout for legacy data
MilestonePos(stor, m, i, count) ==
  LET cx == (ScreenW * Scale) \div 2
      cy == (ScreenH * Scale) \div 2
      deg == IF count > 1 THEN (i * 360) \div count - 90 ELSE 0
      orbit == (Min2(ScreenW, ScreenH) * Scale * 3) \div 10
  IN IF stor[m].set THEN stor[m]
     ELSE IF count > 1
          THEN At(cx + Div(Cos1000(deg) * orbit, 1000), cy + Div(Sin1000(deg) * orbit, 1000))
          ELSE At(cx, cy)

\* every subtask of the tree counts as incomplete (completion is not modelled)
TaskRadius(skySet, t) ==
  TASK_RADIUS_BASE * Scale
    + Len(Present(SubtaskIds(t), skySet)) * TASK_RADIUS_PER_SUBTASK * Scale

\* isTaskFocused || isSubtaskFocused
\* createNodes reading only the focused task, not the task of a focused subtask
ShowsSubtasksTaskOnly(skySet, focus, t) == focus = t

ShowsSubtasks(skySet, focus, t) ==
  \/ focus = t
  \/ /\ focus # None
     /\ TypeOf(focus) = "subtask"
     /\ \E k \in 1..Len(Present(SubtaskIds(t), skySet)) :
          Present(SubtaskIds(t), skySet)[k] = focus

SubtaskNodes(skySet, focus, existing, t, tx, ty) ==
  LET subs == Present(SubtaskIds(t), skySet)
      r == TaskRadius(skySet, t)
  IN IF ShowsSubtasks(skySet, focus, t)
     THEN [k \in 1..Len(subs) |->
             LET p == SubtaskPos(existing, subs[k], tx, ty, k - 1, Len(subs), r)
             IN Node(subs[k], p.x, p.y, SUBTASK_RADIUS * Scale)]
     ELSE <<>>

TaskNodes(skySet, focus, existing, rnd, m, mx, my) ==
  LET tasks == Present(TaskIds(m), skySet)
  IN ConcatAll([j \in 1..Len(tasks) |->
       LET t == tasks[j]
           p == TaskPos(existing, t, mx, my, j - 1, Len(tasks), rnd[t])
       IN <<Node(t, p.x, p.y, TaskRadius(skySet, t))>>
            \o SubtaskNodes(skySet, focus, existing, t, p.x, p.y)])

createNodes(skySet, stor, focus, existing, rnd) ==
  LET ms == Present(MilestoneIds, skySet)
  IN ConcatAll([i \in 1..Len(ms) |->
       LET m == ms[i]
           p == MilestonePos(stor, m, i - 1, Len(ms))
       IN <<Node(m, p.x, p.y, MILESTONE_RADIUS * Scale)>>
            \o TaskNodes(skySet, focus, existing, rnd, m, p.x, p.y)])

\* ------------------------------------------------------------------------
\* physics.ts: drag state
\* ------------------------------------------------------------------------
NoDrag == [nodeId |-> None, x |-> 0, y |-> 0, prevX |-> 0, prevY |-> 0, vx |-> 0, vy |-> 0]

startDragPhysics(ds, nodeId, x, y) ==
  [nodeId |-> nodeId, x |-> x, y |-> y, prevX |-> x, prevY |-> y, vx |-> 0, vy |-> 0]

\* (mutation) updateDragPhysics without its early return when no drag is active
updateDragUnguarded(ds, x, y) ==
  [nodeId |-> ds.nodeId, x |-> x, y |-> y, prevX |-> ds.x, prevY |-> ds.y,
   vx |-> Div((x - ds.x) * 8, 10) + Div(ds.vx * 2, 10),
   vy |-> Div((y - ds.y) * 8, 10) + Div(ds.vy * 2, 10)]

\* (mutation) updateDragPhysics taking the previous velocity off the new one
updateDragRebound(ds, x, y) ==
  IF ds.nodeId = None THEN ds
  ELSE [nodeId |-> ds.nodeId, x |-> x, y |-> y, prevX |-> ds.x, prevY |-> ds.y,
        vx |-> Div((x - ds.x) * 8, 10) - Div(ds.vx * 8, 10),
        vy |-> Div((y - ds.y) * 8, 10) - Div(ds.vy * 8, 10)]

updateDragPhysics(ds, x, y) ==
  IF ds.nodeId = None THEN ds
  ELSE [nodeId |-> ds.nodeId, x |-> x, y |-> y, prevX |-> ds.x, prevY |-> ds.y,
        vx |-> Div((x - ds.x) * 8, 10) + Div(ds.vx * 2, 10),
        vy |-> Div((y - ds.y) * 8, 10) + Div(ds.vy * 2, 10)]

\* the state endDragPhysics leaves; its return value is ReleaseVelocity
endDragPhysics(ds) == [ds EXCEPT !.nodeId = None, !.vx = 0, !.vy = 0]

ReleaseVelocity(ds) == [vx |-> ds.vx, vy |-> ds.vy]

\* ------------------------------------------------------------------------
\* physics.ts: applyForces
\* ------------------------------------------------------------------------
\* Math.sqrt(a*a + b*b), with the operands reduced when the squares would
\* leave the 32-bit range of TLC's integers
Hypot(a, b) ==
  IF Abs(a) > 30000 \/ Abs(b) > 30000
  THEN 64 * ISqrt(Div(a, 64) * Div(a, 64) + Div(b, 64) * Div(b, 64))
  ELSE ISqrt(a * a + b * b)

\* nodeMap.get(id): the last node of the array with that id, 0 when absent
NodeIndex(ns, id) ==
  LET hits == {i \in 1..Len(ns) : ns[i].id = id}
  IN IF hits = {} THEN 0 ELSE CHOOSE i \in hits : \A j \in hits : j <= i

NearDrag(n, ds) ==
  /\ Abs(n.x - ds.x) * 2 < DRAG_PUSH_RADIUS * Scale * 3
  /\ Abs(n.y - ds.y) * 2 < DRAG_PUSH_RADIUS * Scale * 3

\* (mutation) two nodes at identical coordinates are treated as one unit apart
\* along x, and repel
RepulsionForceNudged(a, b, ds) ==
  LET coincide == b.x = a.x /\ b.y = a.y
      dx == IF coincide THEN 1 ELSE b.x - a.x
      dy == b.y - a.y
      maxDist == a.radius + b.radius + 150 * Scale
      minDist == a.radius + b.radius + 20 * Scale
      zero == [fx |-> 0, fy |-> 0]
  IN IF ds.nodeId # None /\ ~NearDrag(a, ds) /\ ~NearDrag(b, ds) THEN zero
     ELSE IF Abs(dx) > maxDist \/ Abs(dy) > maxDist THEN zero
     ELSE LET dist == Hypot(dx, dy)
              dragMultiplier == IF a.id = ds.nodeId \/ b.id = ds.nodeId THEN 3 ELSE 1
              k == (minDist - dist) * (REPULSION_STRENGTH \div 10) * dragMultiplier
          IN IF dist < minDist /\ dist > 0
             THEN [fx |-> Div(Div(dx * 1000, dist) * k, 10000),
                   fy |-> Div(Div(dy * 1000, dist) * k, 10000)]
             ELSE zero

\* the repulsive velocity change of the pair (a, b), as (fx, fy); zero when the
\* pair is skipped
RepulsionForce(a, b, ds) ==
  LET dx == b.x - a.x
      dy == b.y - a.y
      maxDist == a.radius + b.radius + 150 * Scale
      minDist == a.radius + b.radius + 20 * Scale
      zero == [fx |-> 0, fy |-> 0]
  IN IF ds.nodeId # None /\ ~NearDrag(a, ds) /\ ~NearDrag(b, ds) THEN zero
     ELSE IF Abs(dx) > maxDist \/ Abs(dy) > maxDist THEN zero
     ELSE LET dist == Hypot(dx, dy)
              distSqPositive == dx # 0 \/ dy # 0
              dragMultiplier == IF a.id = ds.nodeId \/ b.id = ds.nodeId THEN 3 ELSE 1
              k == (minDist - dist) * (REPULSION_STRENGTH \div 10) * dragMultiplier
          IN IF dist < minDist /\ distSqPositive /\ dist > 0
             THEN [fx |-> Div(Div(dx * 1000, dist) * k, 10000),
                   fy |-> Div(Div(dy * 1000, dist) * k, 10000)]
             ELSE zero

\* the body of the inner loop for the pair (i, j); node i is never the dragged
\* node here, whose iteration ends before the loop
RepelPair(ns, i, j, ds) ==
  LET f == RepulsionForce(ns[i], ns[j], ds)
      otherIsDragged == ns[j].id = ds.nodeId
      afterA == [ns EXCEPT ![i].vx = @ - f.fx, ![i].vy = @ - f.fy]
  IN IF otherIsDragged THEN afterA
     ELSE [afterA EXCEPT ![j].vx = @ + f.fx, ![j].vy = @ + f.fy]

\* the inner loop: for (j = i + 1; j < nodes.length; j++)
RECURSIVE RepelLoop(_, _, _, _)
RepelLoop(ns, i, j, ds) ==
  IF j > Len(ns) THEN ns
  ELSE RepelLoop(RepelPair(ns, i, j, ds), i, j + 1, ds)

\* what the inner loop of node i adds to the velocities, pair by pair:
\* rec[<<a, b>>] is the velocity node a has received on account of node b
NoneReceived(ns) == [pr \in (1..Len(ns)) \X (1..Len(ns)) |-> [fx |-> 0, fy |-> 0]]

RECURSIVE ReceivedLoop(_, _, _, _, _)
ReceivedLoop(rec, ns, i, j, ds) ==
  IF j > Len(ns) THEN rec
  ELSE LET after == RepelPair(ns, i, j, ds)
           seen == [rec EXCEPT ![<<i, j>>] = [fx |-> after[i].vx - ns[i].vx,
                                              fy |-> after[i].vy - ns[i].vy],
                               ![<<j, i>>] = [fx |-> after[j].vx - ns[j].vx,
                                              fy |-> after[j].vy - ns[j].vy]]
       IN ReceivedLoop(seen, after, i, j + 1, ds)

\* parent-child attraction of node i toward its parent
ParentAttraction(ns, i) ==
  LET a == ns[i]
      pi == IF a.parentId = None THEN 0 ELSE NodeIndex(ns, a.parentId)
  IN IF pi = 0 THEN ns
     ELSE LET dx == ns[pi].x - a.x
              dy == ns[pi].y - a.y
              dist == Hypot(dx, dy)
              idealOrbit == IF a.type = "subtask" THEN SUBTASK_ORBIT_RADIUS * Scale
                            ELSE ((TASK_ORBIT_RADIUS_MIN + TASK_ORBIT_RADIUS_MAX) * Scale) \div 2
              typeTenths == IF a.type = "subtask" THEN 3 ELSE 10
              \* (attractionForce + gravityForce) in thousandths of a unit
              milli == Div(((dist - idealOrbit) * ORBIT_STIFFNESS_MILLI
                              + PARENT_ATTRACTION_MILLI * Scale) * typeTenths, 10)
          IN IF dist > 0
             THEN [ns EXCEPT ![i].vx = @ + Div(Div(dx * 1000, dist) * milli, 1000000),
                             ![i].vy = @ + Div(Div(dy * 1000, dist) * milli, 1000000)]
             ELSE ns

\* push and wake from the dragged cloud
DragPush(ns, i, ds) ==
  LET a == ns[i]
      dx == a.x - ds.x
      dy == a.y - ds.y
      dist == Hypot(dx, dy)
      R == DRAG_PUSH_RADIUS * Scale
      pushStrength == Div((R - dist) * DRAG_PUSH_STRENGTH * Scale, R)
  IN IF ds.nodeId # None /\ dist < R /\ dist > 0
     THEN [ns EXCEPT
             ![i].vx = @ + Div(dx * pushStrength, dist)
                         + Div(Div(ds.vx * DRAG_VELOCITY_TRANSFER_PCT, 100) * (R - dist), R),
             ![i].vy = @ + Div(dy * pushStrength, dist)
                         + Div(Div(ds.vy * DRAG_VELOCITY_TRANSFER_PCT, 100) * (R - dist), R)]
     ELSE ns

\* jitter when moving; jit is the pair of (Math.random() - 0.5) * 0.05 draws
Jitter(ns, i, jit) ==
  IF Hypot(ns[i].vx, ns[i].vy) * 10 > Scale
  THEN [ns EXCEPT ![i].vx = @ + jit[1], ![i].vy = @ + jit[2]]
  ELSE ns

\* (mutation) the speed is not capped
ClampNone(ns, i) == ns

\* velocity cap
ClampVelocity(ns, i) ==
  LET speed == Hypot(ns[i].vx, ns[i].vy)
  IN IF speed > MAX_VELOCITY * Scale
     THEN [ns EXCEPT ![i].vx = Div(@ * MAX_VELOCITY * Scale, speed),
                     ![i].vy = Div(@ * MAX_VELOCITY * Scale, speed)]
     ELSE ns

\* position += velocity; velocity *= DAMPING
Integrate(ns, i) ==
  [ns EXCEPT ![i].x = @ + ns[i].vx, ![i].y = @ + ns[i].vy,
             ![i].vx = Div(@ * DAMPING_PCT, 100), ![i].vy = Div(@ * DAMPING_PCT, 100)]

ZeroVelocity(ns, i) == [ns EXCEPT ![i].vx = 0, ![i].vy = 0]

\* (mutation) focus mode does not damp: a background node is simulated as in
\* free mode
NodeBranchBackgroundSimulated(ns, i, ds, focusedNodeId, inFocusMode, focusedSubtreeIds) ==
  LET a == ns[i]
      fi == IF focusedNodeId = None THEN 0 ELSE NodeIndex(ns, focusedNodeId)
      parentOfFocusedSubtask ==
        IF fi # 0 /\ ns[fi].type = "subtask" /\ ns[fi].parentId # None
        THEN ns[fi].parentId ELSE None
      isFocused == a.id = focusedNodeId
      isChildOfFocused == fi # 0 /\ a.parentId = ns[fi].id
      isParentOfFocusedSubtask == parentOfFocusedSubtask # None /\ a.id = parentOfFocusedSubtask
  IN IF a.id = ds.nodeId THEN "dragged"
     ELSE IF a.id \in focusedSubtreeIds THEN "excluded"
     ELSE IF inFocusMode
          THEN IF isFocused \/ isParentOfFocusedSubtask \/ isChildOfFocused
               THEN "skipped" ELSE "simulated"
          ELSE IF isFocused \/ isParentOfFocusedSubtask \/ a.type = "milestone"
               THEN "locked" ELSE "simulated"

\* (mutation) milestones are simulated like every other node in free mode
NodeBranchGroupsSimulated(ns, i, ds, focusedNodeId, inFocusMode, focusedSubtreeIds) ==
  LET a == ns[i]
      fi == IF focusedNodeId = None THEN 0 ELSE NodeIndex(ns, focusedNodeId)
      parentOfFocusedSubtask ==
        IF fi # 0 /\ ns[fi].type = "subtask" /\ ns[fi].parentId # None
        THEN ns[fi].parentId ELSE None
      isFocused == a.id = focusedNodeId
      isChildOfFocused == fi # 0 /\ a.parentId = ns[fi].id
      isParentOfFocusedSubtask == parentOfFocusedSubtask # None /\ a.id = parentOfFocusedSubtask
  IN IF a.id = ds.nodeId THEN "dragged"
     ELSE IF a.id \in focusedSubtreeIds THEN "excluded"
     ELSE IF inFocusMode
          THEN IF isFocused \/ isParentOfFocusedSubtask \/ isChildOfFocused
               THEN "skipped" ELSE "damped"
          ELSE IF isFocused \/ isParentOfFocusedSubtask
               THEN "locked" ELSE "simulated"

\* the branch of the per-node state machine that node i takes
NodeBranch(ns, i, ds, focusedNodeId, inFocusMode, focusedSubtreeIds) ==
  LET a == ns[i]
      fi == IF focusedNodeId = None THEN 0 ELSE NodeIndex(ns, focusedNodeId)
      parentOfFocusedSubtask ==
        IF fi # 0 /\ ns[fi].type = "subtask" /\ ns[fi].parentId # None
        THEN ns[fi].parentId ELSE None
      isFocused == a.id = focusedNodeId
      isChildOfFocused == fi # 0 /\ a.parentId = ns[fi].id
      isParentOfFocusedSubtask == parentOfFocusedSubtask # None /\ a.id = parentOfFocusedSubtask
  IN IF a.id = ds.nodeId THEN "dragged"
     ELSE IF a.id \in focusedSubtreeIds THEN "excluded"
     ELSE IF inFocusMode
          THEN IF isFocused \/ isParentOfFocusedSubtask \/ isChildOfFocused
               THEN "skipped" ELSE "damped"
          ELSE IF isFocused \/ isParentOfFocusedSubtask \/ a.type = "milestone"
               THEN "locked" ELSE "simulated"

\* (mutation) the nodes of focusedSubtreeIds are damped, not excluded: they keep
\* moving with what is left of their velocity
StepNodeDamping(acc, i, ds, focusedNodeId, inFocusMode, focusedSubtreeIds, jit) ==
  LET ns == acc.ns
      branch == NodeBranch(ns, i, ds, focusedNodeId, inFocusMode, focusedSubtreeIds)
  IN IF branch = "dragged"
     THEN [acc EXCEPT !.ns = [ns EXCEPT ![i].x = ds.x, ![i].y = ds.y, ![i].vx = 0, ![i].vy = 0]]
     ELSE IF branch = "excluded"
     THEN [acc EXCEPT !.ns = [ns EXCEPT ![i].x = @ + Div(ns[i].vx * 85, 100),
                                        ![i].y = @ + Div(ns[i].vy * 85, 100),
                                        ![i].vx = Div(@ * 85, 100), ![i].vy = Div(@ * 85, 100)]]
     ELSE IF branch = "locked"
     THEN [acc EXCEPT !.ns = ZeroVelocity(ns, i)]
     ELSE IF branch = "skipped" THEN acc
     ELSE IF branch = "damped"
     THEN [acc EXCEPT !.ns = [ns EXCEPT ![i].vx = Div(@ * 85, 100), ![i].vy = Div(@ * 85, 100)]]
     ELSE LET attracted == ParentAttraction(ns, i)
              forced == Jitter(DragPush(RepelLoop(attracted, i, i + 1, ds), i, ds), i, jit)
              speed == Hypot(forced[i].vx, forced[i].vy)
          IN [ns |-> Integrate(ClampVelocity(forced, i), i),
              maxVelocity |-> Max2(acc.maxVelocity, speed),
              received |-> ReceivedLoop(acc.received, attracted, i, i + 1, ds)]

\* one iteration of the outer loop, for node i; acc is [ns, maxVelocity] and
\* the record of what the inner loops have added so far
StepNode(acc, i, ds, focusedNodeId, inFocusMode, focusedSubtreeIds, jit) ==
  LET ns == acc.ns
      branch == NodeBranch(ns, i, ds, focusedNodeId, inFocusMode, focusedSubtreeIds)
  IN IF branch = "dragged"
     THEN [acc EXCEPT !.ns = [ns EXCEPT ![i].x = ds.x, ![i].y = ds.y, ![i].vx = 0, ![i].vy = 0]]
     ELSE IF branch = "excluded" \/ branch = "locked"
     THEN [acc EXCEPT !.ns = ZeroVelocity(ns, i)]
     ELSE IF branch = "skipped" THEN acc
     ELSE IF branch = "damped"
     THEN [acc EXCEPT !.ns = [ns EXCEPT ![i].vx = Div(@ * 85, 100), ![i].vy = Div(@ * 85, 100)]]
     ELSE LET attracted == ParentAttraction(ns, i)
              forced == Jitter(DragPush(RepelLoop(attracted, i, i + 1, ds), i, ds), i, jit)
              speed == Hypot(forced[i].vx, forced[i].vy)
          IN [ns |-> Integrate(ClampVelocity(forced, i), i),
              maxVelocity |-> Max2(acc.maxVelocity, speed),
              received |-> ReceivedLoop(acc.received, attracted, i, i + 1, ds)]

RECURSIVE ForcesLoop(_, _, _, _, _, _, _)
ForcesLoop(acc, i, ds, focusedNodeId, inFocusMode, focusedSubtreeIds, jit) ==
  IF i > Len(acc.ns) THEN acc
  ELSE ForcesLoop(StepNode(acc, i, ds, focusedNodeId, inFocusMode, focusedSubtreeIds, jit),
                  i + 1, ds, focusedNodeId, inFocusMode, focusedSubtreeIds, jit)

\* applyForces(nodes, focusedNodeId, inFocusMode, focusedSubtreeIds): the nodes
\* after the step, the returned maxVelocity and the record of the inner loops
applyForces(ns, ds, focusedNodeId, inFocusMode, focusedSubtreeIds, jit) ==
  ForcesLoop([ns |-> ns, maxVelocity |-> 0, received |-> NoneReceived(ns)], 1, ds,
             focusedNodeId, inFocusMode, focusedSubtreeIds, jit)

\* ------------------------------------------------------------------------
\* Cloud.ts: puffs, focus state and morph
\* ------------------------------------------------------------------------
Puff(x, y, r) == [x |-> x, y |-> y, r |-> r]

\* The seeded draws rng.next() are taken at their midpoint 0.5 and each list is
\* cut to its leading puffs: the central puff and the first bump.
BasePuffs(radius) ==
  << Puff(0, 0, Div(radius * 65, 100)),
     Puff(Div(radius * 475, 1000), 0, Div(radius * 45, 100)) >>

\* content bounds measured by the renderer (getLocalBounds), in pixels
FocusContentBounds == [w |-> 200, h |-> 120]
ChildContentBounds == [w |-> 110, h |-> 40]

Clamp(v, lo, hi) == Max2(lo, Min2(hi, v))

\* computeMorphPuffs: the target list for the required size, in the profile
\* selected by isChildOfFocusedNode (leading puffs: centre, first ring puff and,
\* for the focused profile, first interior puff)
MorphTarget(isChild, requiredW, requiredH) ==
  LET rx == requiredW \div 2 + 25 * Scale
      ry == requiredH \div 2 + 25 * Scale
      R == Max2(rx, ry)
      puffRadiusBase == Max2(Div(R * 27, 100), 18 * Scale)
  IN IF isChild
     THEN LET puffRadiusMin == Max2(8 * Scale, Div(R * 15, 100))
              puffRadiusMax == Max2(16 * Scale, Div(R * 40, 100))
              centerR == Max2(Div(puffRadiusMax * 12, 10), Div(R * 50, 100))
              dist == Div(R * 50, 100)
              pr == Clamp(Div(puffRadiusBase * 12, 10), puffRadiusMin, puffRadiusMax)
              finalR == Min2(pr, R - dist + pr \div 2)
          IN << Puff(0, 0, centerR), Puff(dist, 0, Max2(puffRadiusMin, finalR)) >>
     ELSE LET puffRadiusMin == 14 * Scale
              puffRadiusMax == Min2(Div(R * 45, 100), 40 * Scale)
              centerR == Div(Min2(rx, ry) * 45, 100)
              pr == Clamp(puffRadiusBase, puffRadiusMin, puffRadiusMax)
          IN << Puff(0, 0, centerR), Puff(Div(R * 50, 100), 0, pr),
                Puff(-Div(R * 389, 1000), 0, pr) >>

\* this.hitArea of a cloud that never computed a morph target: none is set, and
\* the pointer is tested against the drawn shape
NoHitArea == [rx |-> 0, ry |-> 0]

computeMorphPuffs(c, requiredW, requiredH) ==
  [c EXCEPT !.coverageR = Max2(requiredW \div 2 + 25 * Scale, requiredH \div 2 + 25 * Scale),
            !.hitArea = [rx |-> requiredW \div 2 + 25 * Scale, ry |-> requiredH \div 2 + 25 * Scale],
            !.targetPuffs = MorphTarget(c.isChildOfFocusedNode, requiredW, requiredH),
            !.morphComplete = FALSE]

layoutFocusedContent(c) ==
  LET requiredW == (FocusContentBounds.w + 40 * 2) * Scale
      requiredH == (FocusContentBounds.h + 32 * 2) * Scale
      sized == [c EXCEPT !.requiredCoverageR =
                  Max2(requiredW \div 2 + 15 * Scale, requiredH \div 2 + 15 * Scale)]
  IN computeMorphPuffs(sized, requiredW, requiredH)

layoutChildContent(c) ==
  LET requiredW == (ChildContentBounds.w + 30 * 2) * Scale
      requiredH == (ChildContentBounds.h + 25 * 2) * Scale
      sized == [c EXCEPT !.requiredCoverageR =
                  Max2(requiredW \div 2 + 15 * Scale, requiredH \div 2 + 15 * Scale)]
  IN computeMorphPuffs(sized, requiredW, requiredH)

\* new Cloud(node, skipSpawnAnimation)
NewCloud(node, skipSpawnAnimation) ==
  [dragging |-> FALSE, isSpawning |-> ~skipSpawnAnimation,
   isFocusedNode |-> FALSE, isChildOfFocusedNode |-> FALSE,
   basePuffs |-> BasePuffs(node.radius),
   currentPuffs |-> BasePuffs(node.radius),
   targetPuffs |-> BasePuffs(node.radius),
   morphComplete |-> TRUE, coverageR |-> 0, requiredCoverageR |-> 0,
   hitArea |-> NoHitArea]

setFocused(c, focused) ==
  IF focused THEN layoutFocusedContent([c EXCEPT !.isFocusedNode = TRUE])
  ELSE [c EXCEPT !.isFocusedNode = FALSE, !.targetPuffs = c.basePuffs]

setChildOfFocused(c, isChild) ==
  IF isChild THEN layoutChildContent([c EXCEPT !.isChildOfFocusedNode = TRUE])
  ELSE [c EXCEPT !.isChildOfFocusedNode = FALSE, !.targetPuffs = c.basePuffs]

resetFocus(c) ==
  [c EXCEPT !.isFocusedNode = FALSE, !.isChildOfFocusedNode = FALSE,
            !.currentPuffs = c.basePuffs, !.targetPuffs = c.basePuffs,
            !.requiredCoverageR = 0]

computeRequiredSizeNow(c, mode) ==
  IF mode = "focused" THEN layoutFocusedContent(c) ELSE layoutChildContent(c)

updateNode(c) ==
  IF c.isFocusedNode THEN layoutFocusedContent(c)
  ELSE IF c.isChildOfFocusedNode THEN layoutChildContent(c)
  ELSE c

startDrag(c) == [c EXCEPT !.dragging = TRUE]

endDrag(c) == [c EXCEPT !.dragging = FALSE]

\* the morph threshold of update: 0.3 pixels
MorphEpsilon == (3 * Scale) \div 10

PuffFar(cur, tgt) ==
  \/ Abs(cur.x - tgt.x) > MorphEpsilon
  \/ Abs(cur.y - tgt.y) > MorphEpsilon
  \/ Abs(cur.r - tgt.r) > MorphEpsilon

\* current += (target - current) * morphSpeed * deltaTime, morphSpeed = 0.25
Lerp(cur, tgt, deltaTime) == cur + Div((tgt - cur) * deltaTime, 4)

MorphPuff(cur, tgt, deltaTime) ==
  IF PuffFar(cur, tgt)
  THEN Puff(Lerp(cur.x, tgt.x, deltaTime), Lerp(cur.y, tgt.y, deltaTime),
            Lerp(cur.r, tgt.r, deltaTime))
  ELSE cur

\* push {0, 0, 0} puffs up to the target length, pop the excess ones
ResizePuffs(cur, n) ==
  [i \in 1..n |-> IF i <= Len(cur) THEN cur[i] ELSE Puff(0, 0, 0)]

\* the puff morph section of update
Morph(c, deltaTime) ==
  IF c.morphComplete THEN c
  ELSE LET n == Len(c.targetPuffs)
           grown == Len(c.currentPuffs) < n
           sized == ResizePuffs(c.currentPuffs, n)
           allSettled == ~grown /\ \A i \in 1..n : ~PuffFar(sized[i], c.targetPuffs[i])
       IN [c EXCEPT !.currentPuffs = [i \in 1..n |-> MorphPuff(sized[i], c.targetPuffs[i], deltaTime)],
                    !.morphComplete = allSettled]

\* Cloud.update(deltaTime): spawnOver tells whether SPAWN_DURATION_MS has elapsed
update(c, deltaTime, spawnOver) ==
  IF c.isSpawning THEN [c EXCEPT !.isSpawning = ~spawnOver]
  ELSE IF c.dragging THEN c
  ELSE Morph(c, deltaTime)

isAnimating(c) == c.isSpawning \/ ~c.morphComplete

\* ------------------------------------------------------------------------
\* SkyCanvas.tsx: state
\* ------------------------------------------------------------------------
VARIABLES
  sky,                \* skyData: the set of entities present ({} before the first load)
  stored,             \* Milestone.x / .y delivered with skyData
  focus,              \* focusedNode prop and focusedNodeRef.current (an id or None)
  prevFocusedId,      \* prevFocusedIdRef.current
  nodes,              \* nodesRef.current
  clouds,             \* cloudsRef.current: id -> Cloud
  layoutMap,          \* focusLayoutPositionsRef.current: id -> {x, y}
  focusToken,         \* focusTokenRef.current
  rafQueue,           \* requestAnimationFrame callbacks of refreshFocusLayout, oldest first
  dragState,          \* physics.ts dragState
  draggedCloud,       \* draggedCloudRef.current (the id of the cloud, or None)
  longPressTimer,     \* longPressTimerRef.current is set
  longPressTriggered, \* longPressTriggeredRef.current
  pointers,           \* number of pointers (mouse button or fingers) that are down
  touchStartPending,  \* a second finger went down and its touchstart is not yet delivered
  phase,              \* "idle", or "raf" while the callbacks of the current frame run
  lastOp,             \* the handler that ran last
  preStep,            \* nodesRef.current as passed to the last applyForces call
  ticks, commits, pointerEvents, \* handler runs so far, by kind
  limits,             \* the number of runs of each kind a behaviour is explored for
  undoActions,        \* undoService.ts: the UndoAction table, ordered by createdAt
  db,                 \* the Task and Subtask tables of the backend: id -> row
  app,                \* App.tsx and its hooks: requests in flight, timers, exposed state
  probe               \* the inputs and second results kept where a function is checked alone

\* no rows, and an application in which nothing has been requested yet
NoDb == [tasks |-> <<>>, subtasks |-> <<>>]

NoApp == <<>>

canvasVars == <<sky, stored, focus, prevFocusedId, nodes, clouds, layoutMap, focusToken, rafQueue>>
inputVars == <<dragState, draggedCloud, longPressTimer, longPressTriggered, pointers,
               touchStartPending>>
frameVars == <<phase, lastOp, preStep, ticks, commits, pointerEvents, limits, undoActions,
              db, app, probe>>
vars == <<canvasVars, inputVars, frameVars>>

NodeIds(ns) == {ns[i].id : i \in 1..Len(ns)}

\* nodesRef.current.find(n => n.id === id): the first match, 0 when absent
FindNode(ns, id) ==
  LET hits == {i \in 1..Len(ns) : ns[i].id = id}
  IN IF hits = {} THEN 0 ELSE CHOOSE i \in hits : \A j \in hits : i <= j

\* the canvas refs an effect or callback works on
Canvas == [nodes |-> nodes, clouds |-> clouds, layoutMap |-> layoutMap,
           focusToken |-> focusToken, rafQueue |-> rafQueue]

EmptyMap == [k \in {} |-> At(0, 0)]

MapSet(m, id, x, y) == [k \in DOMAIN m \cup {id} |-> IF k = id THEN [x |-> x, y |-> y] ELSE m[k]]

\* ------------------------------------------------------------------------
\* SkyCanvas.tsx: refreshFocusLayout and its animation-frame callback
\* ------------------------------------------------------------------------
ChildrenOf(ns, id) == SelectSeq(ns, LAMBDA n : n.parentId = id)

\* the callback closes over parentNode and children: node objects, which are
\* those of nodesRef.current (live) until the next rebuild replaces the array
RafCallback(token, parentNode, children) ==
  [token |-> token, parentNode |-> parentNode, children |-> children, live |-> TRUE]

\* (mutation) the branch for a node without children does not clear the map
\* before it stores the position of the node
refreshFocusLayoutKeeping(cv, focusedNode) ==
  IF focusedNode = None THEN cv
  ELSE LET children == ChildrenOf(cv.nodes, focusedNode)
           pi == FindNode(cv.nodes, focusedNode)
       IN IF pi = 0 \/ Len(children) = 0
          THEN IF pi # 0
               THEN [cv EXCEPT !.layoutMap = MapSet(cv.layoutMap, focusedNode, cv.nodes[pi].x, cv.nodes[pi].y)]
               ELSE cv
          ELSE [cv EXCEPT !.focusToken = @ + 1,
                          !.rafQueue = Append(@, RafCallback(cv.focusToken + 1, cv.nodes[pi], children))]

refreshFocusLayout(cv, focusedNode) ==
  IF focusedNode = None THEN cv
  ELSE LET children == ChildrenOf(cv.nodes, focusedNode)
           pi == FindNode(cv.nodes, focusedNode)
       IN IF pi = 0 \/ Len(children) = 0
          THEN IF pi # 0
               THEN [cv EXCEPT !.layoutMap = MapSet(EmptyMap, focusedNode, cv.nodes[pi].x, cv.nodes[pi].y)]
               ELSE cv
          ELSE [cv EXCEPT !.focusToken = @ + 1,
                          !.rafQueue = Append(@, RafCallback(cv.focusToken + 1, cv.nodes[pi], children))]

\* the node objects a callback holds, with their present field values
HeldNode(cv, cb, n) ==
  IF cb.live /\ FindNode(cv.nodes, n.id) # 0 THEN cv.nodes[FindNode(cv.nodes, n.id)] ELSE n

\* (mutation) the layout reads the animated size of a child, the radius of its
\* central puff as drawn now, not the size its content requires
ChildCoverageAnimated(cv, child) ==
  IF child.id \in DOMAIN cv.clouds
  THEN cv.clouds[child.id].currentPuffs[1].r + 40 * Scale
  ELSE child.radius + 40 * Scale

ChildCoverage(cv, child) ==
  IF child.id \in DOMAIN cv.clouds /\ cv.clouds[child.id].requiredCoverageR # 0
  THEN cv.clouds[child.id].requiredCoverageR
  ELSE child.radius + 40 * Scale

RECURSIVE MaxChildCoverage(_, _, _)
MaxChildCoverage(cv, children, i) ==
  IF i > Len(children) THEN 0
  ELSE Max2(ChildCoverage(cv, children[i]), MaxChildCoverage(cv, children, i + 1))

OrbitGap == 15

\* the orbit radius without the density guard
OrbitRadiusByCoverage(parentCoverageR, maxChildR, childCount) ==
  parentCoverageR + OrbitGap * Scale + maxChildR

\* orbit radius with the density guard; 2 * Math.PI is 6283 / 1000
OrbitRadius(parentCoverageR, maxChildR, childCount) ==
  Max2(parentCoverageR + OrbitGap * Scale + maxChildR,
       Div(childCount * (maxChildR * 2 + 30 * Scale) * 1000, 6283))

OrbitPos(parentNode, i, childCount, orbitRadius) ==
  LET deg == (i * 360) \div childCount - 90
  IN [x |-> parentNode.x + Div(Cos1000(deg) * orbitRadius, 1000),
      y |-> parentNode.y + Div(Sin1000(deg) * orbitRadius, 1000)]

\* computeRequiredSizeNow on the parent cloud and on every child cloud
SizedClouds(cs, parentId, childIds) ==
  [id \in DOMAIN cs |->
     LET asParent == IF id = parentId THEN computeRequiredSizeNow(cs[id], "focused") ELSE cs[id]
     IN IF id \in childIds THEN computeRequiredSizeNow(asParent, "child") ELSE asParent]

\* the body of the callback once its token matched
RunLayout(cv, cb) ==
  LET parentNode == HeldNode(cv, cb, cb.parentNode)
      children == [i \in 1..Len(cb.children) |-> HeldNode(cv, cb, cb.children[i])]
      childIds == {children[i].id : i \in 1..Len(children)}
      sized == [cv EXCEPT !.clouds = SizedClouds(cv.clouds, parentNode.id, childIds)]
      maxChildR == MaxChildCoverage(sized, children, 1)
      parentCoverageR == IF sized.clouds[parentNode.id].requiredCoverageR # 0
                         THEN sized.clouds[parentNode.id].requiredCoverageR
                         ELSE parentNode.radius
      orbitRadius == OrbitRadius(parentCoverageR, maxChildR, Len(children))
      pos == [i \in 1..Len(children) |-> OrbitPos(parentNode, i - 1, Len(children), orbitRadius)]
      placed == [k \in 1..Len(cv.nodes) |->
                   LET hit == {i \in 1..Len(children) : children[i].id = cv.nodes[k].id}
                   IN IF cb.live /\ hit # {}
                      THEN LET i == CHOOSE i \in hit : TRUE
                           IN [cv.nodes[k] EXCEPT !.x = pos[i].x, !.y = pos[i].y, !.vx = 0, !.vy = 0]
                      ELSE cv.nodes[k]]
      map == [k \in {parentNode.id} \cup childIds |->
                IF k \in childIds
                THEN pos[CHOOSE i \in 1..Len(children) : children[i].id = k]
                ELSE [x |-> parentNode.x, y |-> parentNode.y]]
  IN [sized EXCEPT !.nodes = placed, !.layoutMap = map]

\* requestAnimationFrame(() => { ... }) of refreshFocusLayout
RunCallback(cv, cb) ==
  IF cv.focusToken # cb.token THEN cv
  ELSE IF cb.parentNode.id \notin DOMAIN cv.clouds THEN cv
  ELSE RunLayout(cv, cb)

\* ------------------------------------------------------------------------
\* SkyCanvas.tsx: the sky data effect
\* ------------------------------------------------------------------------
\* nodesRef.current = nodes: callbacks queued before keep the old node objects
Detach(cv, cb) ==
  IF cb.live
  THEN [cb EXCEPT !.parentNode = HeldNode(cv, cb, cb.parentNode),
                  !.children = [i \in 1..Len(cb.children) |-> HeldNode(cv, cb, cb.children[i])],
                  !.live = FALSE]
  ELSE cb

\* setFocused / setChildOfFocused / resetFocus as the effect applies them to the
\* cloud of one node
FocusFlags(c, node, focusedNode) ==
  IF focusedNode # None
  THEN IF node.id = focusedNode
       THEN setChildOfFocused(setFocused(c, TRUE), FALSE)
       ELSE IF node.parentId = focusedNode
            THEN setChildOfFocused(setFocused(c, FALSE), TRUE)
            ELSE setChildOfFocused(setFocused(c, FALSE), FALSE)
  ELSE resetFocus(c)

\* nodes.forEach((node) => { ... }) of the effect
RECURSIVE CloudLoop(_, _, _, _, _, _)
CloudLoop(cs, ns, i, focusedNode, prevId, isInitialLoad) ==
  IF i > Len(ns) THEN cs
  ELSE LET node == ns[i]
           cloud == IF node.id \in DOMAIN cs THEN updateNode(cs[node.id])
                    ELSE NewCloud(node, isInitialLoad)
           added == [id \in DOMAIN cs \cup {node.id} |-> IF id = node.id THEN cloud ELSE cs[id]]
           cleared == IF focusedNode # None /\ focusedNode # prevId
                      THEN [id \in DOMAIN added |-> resetFocus(added[id])]
                      ELSE added
           flagged == [cleared EXCEPT ![node.id] = FocusFlags(@, node, focusedNode)]
       IN CloudLoop(flagged, ns, i + 1, focusedNode, prevId, isInitialLoad)

\* useEffect(..., [appReady, skyData, focusedNode, ...])
SkyEffect(cv, skyNew, storNew, focusedNode, prevId, rnd) ==
  LET built == createNodes(skyNew, storNew, focusedNode, cv.nodes, rnd)
      newIds == NodeIds(built)
      isInitialLoad == DOMAIN cv.clouds = {}
      kept == [id \in DOMAIN cv.clouds \cap newIds |-> cv.clouds[id]]
      rebuilt == [cv EXCEPT !.nodes = built,
                            !.rafQueue = [i \in 1..Len(cv.rafQueue) |-> Detach(cv, cv.rafQueue[i])],
                            !.clouds = CloudLoop(kept, built, 1, focusedNode, prevId, isInitialLoad)]
  IN IF focusedNode # None THEN refreshFocusLayout(rebuilt, focusedNode) ELSE rebuilt

\* the focus entry/exit effect; prevFocusedIdRef is updated by the caller
FocusEffect(cv, focusedNode, prevId) ==
  IF focusedNode # None /\ focusedNode # prevId THEN refreshFocusLayout(cv, focusedNode)
  ELSE IF focusedNode = None /\ prevId # None THEN [cv EXCEPT !.layoutMap = EmptyMap]
  ELSE cv

\* draggedCloudRef.current: the cloud (by id) and whether it is still the cloud
\* of cloudsRef.current or one the effect has destroyed
NoCloud == [id |-> None, live |-> FALSE]

DetachDragged(dc, cs) == IF dc.id \in DOMAIN cs THEN dc ELSE [dc EXCEPT !.live = FALSE]

\* Math.random() draws of createNodes, in pixels above TASK_ORBIT_RADIUS_MIN
RandomDraws == {10, 25}

\* one draw per task that is new to the graph, none for the others
RndFor(skyNew, ns) ==
  {r \in [Tasks -> {0, 10}] :
     \A t \in Tasks : r[t] = 0 <=> (t \notin skyNew \/ t \in NodeIds(ns))}

\* positions the provider has stored for the milestones
StoredSets == { [m \in Milestones |-> IF m = "M1" THEN p ELSE NoPos] :
                  p \in {At(100 * Scale, 100 * Scale)} }

\* ------------------------------------------------------------------------
\* SkyCanvas.tsx: the component as a state machine
\* ------------------------------------------------------------------------
NoProbe == [previousNodes |-> <<>>, second |-> <<>>, morphFrom |-> <<>>,
            returned |-> 0, received |-> <<>>,
            dragBefore |-> NoDrag, released |-> [vx |-> 0, vy |-> 0],
            once |-> <<>>, orbit |-> <<>>, synth |-> <<>>,
            history |-> [updates |-> 0, rising |-> FALSE], undo |-> <<>>,
            reorder |-> <<>>, completion |-> <<>>]

\* the component after construction, before the first skyData arrives
Mounted ==
  /\ sky = {}
  /\ stored = [m \in Milestones |-> NoPos]
  /\ focus = None
  /\ prevFocusedId = None
  /\ nodes = <<>>
  /\ clouds = [id \in {} |-> NewCloud(Node("M1", 0, 0, 0), TRUE)]
  /\ layoutMap = EmptyMap
  /\ focusToken = 0
  /\ rafQueue = <<>>
  /\ dragState = NoDrag
  /\ draggedCloud = NoCloud
  /\ longPressTimer = FALSE
  /\ longPressTriggered = FALSE
  /\ pointers = 0
  /\ touchStartPending = FALSE
  /\ phase = "idle"
  /\ lastOp = "init"
  /\ preStep = <<>>
  /\ ticks = 0
  /\ commits = 0
  /\ pointerEvents = 0
  /\ probe = NoProbe

Init ==
  /\ Mounted
  /\ limits = [commits |-> MaxCommits, ticks |-> MaxTicks, pointerEvents |-> MaxPointerEvents]
  /\ undoActions = <<>>
  /\ db = NoDb
  /\ app = NoApp

\* between two frames, with no event half delivered
Idle == phase = "idle" /\ ~touchStartPending

SetCanvas(cv) ==
  /\ nodes' = cv.nodes
  /\ clouds' = cv.clouds
  /\ layoutMap' = cv.layoutMap
  /\ focusToken' = cv.focusToken
  /\ rafQueue' = cv.rafQueue

Commit(op) ==
  /\ commits' = commits + 1
  /\ lastOp' = op
  /\ UNCHANGED <<phase, preStep, ticks, pointerEvents, limits, undoActions, db, app, probe>>

\* the provider delivers a new skyData object: the sky data effect runs
SkyDataChange(skyNew, storNew, rnd) ==
  /\ Idle
  /\ commits < limits.commits
  /\ focus # None => focus \in skyNew
  /\ LET cv == SkyEffect(Canvas, skyNew, storNew, focus, prevFocusedId, rnd)
     IN /\ SetCanvas(cv)
        /\ draggedCloud' = DetachDragged(draggedCloud, cv.clouds)
  /\ sky' = skyNew
  /\ stored' = storNew
  /\ Commit("data")
  /\ UNCHANGED <<focus, prevFocusedId, dragState, longPressTimer, longPressTriggered,
                 pointers, touchStartPending>>

\* the focusedNode prop changes: the three effects run in declaration order
FocusChange(f) ==
  /\ Idle
  /\ commits < limits.commits
  /\ sky # {}
  /\ f # focus
  /\ f = None \/ f \in NodeIds(nodes)
  /\ LET entered == FocusEffect(Canvas, f, prevFocusedId)
         cv == SkyEffect(entered, sky, stored, f, f, [t \in Tasks |-> 0])
     IN /\ SetCanvas(cv)
        /\ draggedCloud' = DetachDragged(draggedCloud, cv.clouds)
  /\ focus' = f
  /\ prevFocusedId' = f
  /\ Commit("focus")
  /\ UNCHANGED <<sky, stored, dragState, longPressTimer, longPressTriggered,
                 pointers, touchStartPending>>

\* the imperative handle: skyCanvasRef.current.refreshFocusLayout()
RefreshFocusLayout ==
  /\ Idle
  /\ commits < limits.commits
  /\ focus # None
  /\ SetCanvas(refreshFocusLayout(Canvas, focus))
  /\ Commit("refresh")
  /\ UNCHANGED <<sky, stored, focus, prevFocusedId, inputVars>>

\* ------------------------------------------------------------------------
\* SkyCanvas.tsx: the ticker callback and the animation-frame callbacks
\* ------------------------------------------------------------------------
\* (mutation) the enforcement reaches the focused node only, not its children
EnforceFocusedNodeOnly(ns, map, focusedNode, dragged) ==
  IF focusedNode # None /\ DOMAIN map # {}
  THEN [i \in 1..Len(ns) |->
          IF ns[i].id \in DOMAIN map /\ ns[i].id = focusedNode
          THEN [ns[i] EXCEPT !.x = map[ns[i].id].x, !.y = map[ns[i].id].y, !.vx = 0, !.vy = 0]
          ELSE ns[i]]
  ELSE ns

\* Focus Layout Engine: apply authoritative positions before physics
EnforceFocusLayout(ns, map, focusedNode, dragged) ==
  IF focusedNode # None /\ DOMAIN map # {}
  THEN [i \in 1..Len(ns) |->
          IF ns[i].id \in DOMAIN map /\ dragged.id # ns[i].id
          THEN [ns[i] EXCEPT !.x = map[ns[i].id].x, !.y = map[ns[i].id].y, !.vx = 0, !.vy = 0]
          ELSE ns[i]]
  ELSE ns

\* focusedSubtreeIds as the ticker passes it (undefined behaves as the empty set)
FocusedSubtreeIds(map) == DOMAIN map

\* ticker.deltaTime, in frames
DeltaTimes == {1, 4}

\* the (Math.random() - 0.5) * 0.05 draws of one step
JitterDraws == {<<-2, 2>>, <<2, -1>>}

\* whether SPAWN_DURATION_MS has elapsed: a draw only while some cloud spawns
SpawnDraws(cs) == IF \E id \in DOMAIN cs : cs[id].isSpawning THEN BOOLEAN ELSE {TRUE}

Tick(deltaTime, jit, spawnOver) ==
  /\ Idle
  /\ ticks < limits.ticks
  /\ LET enforced == EnforceFocusLayout(nodes, layoutMap, focus, draggedCloud)
         stepped == IF Len(enforced) > 0
                    THEN applyForces(enforced, dragState, focus, focus # None,
                                     FocusedSubtreeIds(layoutMap), jit).ns
                    ELSE enforced
     IN /\ preStep' = enforced
        /\ nodes' = stepped
  /\ clouds' = [id \in DOMAIN clouds |-> update(clouds[id], deltaTime, spawnOver)]
  /\ phase' = IF rafQueue = <<>> THEN "idle" ELSE "raf"
  /\ ticks' = ticks + 1
  /\ lastOp' = "tick"
  /\ UNCHANGED <<sky, stored, focus, prevFocusedId, layoutMap, focusToken, rafQueue,
                 inputVars, commits, pointerEvents, limits, undoActions, db, app, probe>>

\* the oldest requestAnimationFrame callback of the frame runs
RunRaf ==
  /\ phase = "raf"
  /\ rafQueue # <<>>
  /\ LET cv == RunCallback([Canvas EXCEPT !.rafQueue = Tail(rafQueue)], Head(rafQueue))
     IN SetCanvas(cv)
  /\ phase' = IF Len(rafQueue) = 1 THEN "idle" ELSE "raf"
  /\ lastOp' = "raf"
  /\ UNCHANGED <<sky, stored, focus, prevFocusedId, inputVars, preStep, ticks, commits,
                 pointerEvents, limits, undoActions, db, app, probe>>

\* ------------------------------------------------------------------------
\* SkyCanvas.tsx: pointer, touch and timer handlers
\* ------------------------------------------------------------------------
PointerEvent(op) ==
  /\ pointerEvents' = pointerEvents + 1
  /\ lastOp' = op
  /\ UNCHANGED <<phase, preStep, ticks, commits, limits, undoActions, db, app, probe>>

\* draggedCloud.endDrag() on the cloud the ref holds
EndDragOn(cs, dc) ==
  IF dc.live /\ dc.id \in DOMAIN cs THEN [cs EXCEPT ![dc.id] = endDrag(@)] ELSE cs

\* positions in the world a moving pointer reports
DragTargets == {[x |-> 230 * Scale, y |-> 310 * Scale], [x |-> 60 * Scale, y |-> 200 * Scale]}

\* the clouds a pointer is pressed on
PressTargets == {"T1", "M2"}

\* cloudRef.on('pointerdown', ...) of cloud c, pressed at the centre of the cloud
CloudPointerDown(c) ==
  /\ Idle
  /\ pointerEvents < limits.pointerEvents
  /\ pointers < 2
  /\ c \in DOMAIN clouds
  /\ FindNode(nodes, c) # 0
  /\ pointers' = pointers + 1
  /\ touchStartPending' = (pointers = 1)
  /\ IF focus # None /\ c = focus
     THEN /\ PointerEvent("pointerdown-focused")
          /\ UNCHANGED <<canvasVars, dragState, draggedCloud, longPressTimer,
                         longPressTriggered>>
     ELSE /\ longPressTriggered' = FALSE
          /\ longPressTimer' = TRUE
          /\ draggedCloud' = [id |-> c, live |-> TRUE]
          /\ clouds' = [clouds EXCEPT ![c] = startDrag(@)]
          /\ dragState' = startDragPhysics(dragState, c, nodes[FindNode(nodes, c)].x,
                                           nodes[FindNode(nodes, c)].y)
          /\ PointerEvent("pointerdown")
          /\ UNCHANGED <<sky, stored, focus, prevFocusedId, nodes, layoutMap, focusToken,
                         rafQueue>>

\* app.stage.on('pointerdown', ...): a second finger goes down on the background
\* (the first press there only starts a viewport pan, which is not part of the state)
StagePointerDown ==
  /\ Idle
  /\ pointerEvents < limits.pointerEvents
  /\ pointers = 1
  /\ sky # {}
  /\ pointers' = pointers + 1
  /\ touchStartPending' = (pointers = 1)
  /\ PointerEvent("stagedown")
  /\ UNCHANGED <<canvasVars, dragState, draggedCloud, longPressTimer, longPressTriggered>>

\* handleTouchStart with e.touches.length === 2
TouchStart ==
  /\ touchStartPending
  /\ touchStartPending' = FALSE
  /\ IF draggedCloud # NoCloud
     THEN /\ clouds' = EndDragOn(clouds, draggedCloud)
          /\ dragState' = endDragPhysics(dragState)
          /\ draggedCloud' = NoCloud
          /\ lastOp' = "touchstart-cancel"
     ELSE /\ lastOp' = "touchstart"
          /\ UNCHANGED <<clouds, dragState, draggedCloud>>
  /\ longPressTimer' = FALSE
  /\ UNCHANGED <<sky, stored, focus, prevFocusedId, nodes, layoutMap, focusToken, rafQueue,
                 longPressTriggered, pointers, phase, preStep, ticks, commits, pointerEvents, limits, undoActions, db, app, probe>>

\* app.stage.on('pointermove', ...)
PointerMove(p) ==
  /\ Idle
  /\ pointerEvents < limits.pointerEvents
  /\ pointers >= 1
  /\ longPressTimer' = FALSE
  /\ dragState' = IF draggedCloud = NoCloud THEN dragState
                  ELSE updateDragPhysics(dragState, p.x, p.y)
  /\ PointerEvent("pointermove")
  /\ UNCHANGED <<canvasVars, draggedCloud, longPressTriggered, pointers, touchStartPending>>

\* the drop of the pointerup handler: momentum for the node and, for a node of
\* the focused subtree, its new authoritative position
DropNode(ns, id, v) ==
  LET i == FindNode(ns, id)
  IN IF i = 0 THEN ns
     ELSE [ns EXCEPT ![i].vx = v.vx * RELEASE_VELOCITY_MULTIPLIER,
                     ![i].vy = v.vy * RELEASE_VELOCITY_MULTIPLIER]

DropMap(map, ns, id) ==
  LET i == FindNode(ns, id)
  IN IF i # 0 /\ id \in DOMAIN map THEN MapSet(map, id, ns[i].x, ns[i].y) ELSE map

\* app.stage.on('pointerup', ...)
PointerUp ==
  /\ Idle
  /\ pointers >= 1
  /\ pointers' = pointers - 1
  /\ longPressTimer' = FALSE
  /\ longPressTriggered' = FALSE
  /\ draggedCloud' = NoCloud
  /\ IF longPressTriggered \/ draggedCloud = NoCloud
     THEN /\ lastOp' = "pointerup"
          /\ UNCHANGED <<nodes, clouds, layoutMap, dragState>>
     ELSE /\ clouds' = EndDragOn(clouds, draggedCloud)
          /\ dragState' = endDragPhysics(dragState)
          /\ nodes' = DropNode(nodes, draggedCloud.id, ReleaseVelocity(dragState))
          /\ layoutMap' = DropMap(layoutMap, nodes, draggedCloud.id)
          /\ lastOp' = "pointerup-drop"
  /\ UNCHANGED <<sky, stored, focus, prevFocusedId, focusToken, rafQueue, touchStartPending,
                 phase, preStep, ticks, commits, pointerEvents, limits, undoActions, db, app, probe>>

\* app.stage.on('pointerupoutside', ...)
PointerUpOutside ==
  /\ Idle
  /\ pointers >= 1
  /\ pointers' = pointers - 1
  /\ longPressTimer' = FALSE
  /\ longPressTriggered' = FALSE
  /\ draggedCloud' = NoCloud
  /\ IF draggedCloud # NoCloud
     THEN /\ clouds' = EndDragOn(clouds, draggedCloud)
          /\ dragState' = endDragPhysics(dragState)
          /\ lastOp' = "pointerupoutside-cancel"
     ELSE /\ lastOp' = "pointerupoutside"
          /\ UNCHANGED <<clouds, dragState>>
  /\ UNCHANGED <<sky, stored, focus, prevFocusedId, nodes, layoutMap, focusToken, rafQueue,
                 touchStartPending, phase, preStep, ticks, commits, pointerEvents, limits, undoActions, db, app, probe>>

\* the setTimeout callback of the long press (LONG_PRESS_DURATION_MS after the press)
LongPressFire ==
  /\ Idle
  /\ longPressTimer
  /\ longPressTimer' = FALSE
  /\ longPressTriggered' = TRUE
  /\ IF draggedCloud # NoCloud
     THEN /\ clouds' = EndDragOn(clouds, draggedCloud)
          /\ dragState' = endDragPhysics(dragState)
          /\ draggedCloud' = NoCloud
          /\ lastOp' = "longpress-cancel"
     ELSE /\ lastOp' = "longpress"
          /\ UNCHANGED <<clouds, dragState, draggedCloud>>
  /\ UNCHANGED <<sky, stored, focus, prevFocusedId, nodes, layoutMap, focusToken, rafQueue,
                 pointers, touchStartPending, phase, preStep, ticks, commits, pointerEvents, limits, undoActions, db, app, probe>>

Next ==
  \/ \E skyNew \in SkySets, storNew \in StoredSets :
       \E rnd \in RndFor(skyNew, nodes) : SkyDataChange(skyNew, storNew, rnd)
  \/ \E f \in Ids \cup {None} : FocusChange(f)
  \/ RefreshFocusLayout
  \/ \E deltaTime \in DeltaTimes, jit \in JitterDraws, spawnOver \in SpawnDraws(clouds) :
       Tick(deltaTime, jit, spawnOver)
  \/ RunRaf
  \/ \E c \in PressTargets : CloudPointerDown(c)
  \/ StagePointerDown
  \/ TouchStart
  \/ \E p \in DragTargets : PointerMove(p)
  \/ PointerUp
  \/ PointerUpOutside
  \/ LongPressFire

Spec == Init /\ [][Next]_vars

\* ------------------------------------------------------------------------
\* The focus life cycle alone: commits and frames, explored deeper
\* ------------------------------------------------------------------------
InitFocus ==
  /\ Mounted
  /\ limits = [commits |-> MaxFocusCommits, ticks |-> MaxFocusTicks, pointerEvents |-> 0]
  /\ undoActions = <<>>
  /\ db = NoDb
  /\ app = NoApp

NextFocus ==
  \/ \E skyNew \in SkySets, storNew \in StoredSets :
       \E rnd \in RndFor(skyNew, nodes) : SkyDataChange(skyNew, storNew, rnd)
  \/ \E f \in Ids \cup {None} : FocusChange(f)
  \/ RefreshFocusLayout
  \/ \E deltaTime \in DeltaTimes, jit \in JitterDraws, spawnOver \in SpawnDraws(clouds) :
       Tick(deltaTime, jit, spawnOver)
  \/ RunRaf

SpecFocus == InitFocus /\ [][NextFocus]_vars

\* ------------------------------------------------------------------------
\* Properties of the Focus Layout Map
\* ------------------------------------------------------------------------
\* C2: the Focus Layout Map exists only while a node is focused: in every state
\* in which no node is focused the map is empty (so it is empty after a focus
\* exit and stays so until the next entry), whatever the order of focus entry,
\* focus exit, layout refresh and pending animation-frame callbacks.
C2_MapOnlyWhileFocused == focus = None => DOMAIN layoutMap = {}

\* C3: while a node F is focused, every key of the Focus Layout Map is F's id
\* or the id of a node of the graph whose parent is F, also after the focus has
\* moved to another node and after children of F were added or removed.
C3_KeysAreFocusedSubtree ==
  focus # None =>
    \A k \in DOMAIN layoutMap :
      \/ k = focus
      \/ \E i \in 1..Len(nodes) : nodes[i].id = k /\ nodes[i].parentId = focus

Dragging == {c \in DOMAIN clouds : clouds[c].dragging}

\* C5: at most one node is dragged at a time: no handler run starts a drag
\* (startDragPhysics) while the drag state still names a node, and never is
\* more than one cloud marked as being dragged.
C5_OneDragAtATime ==
  [][ /\ (lastOp' = "pointerdown" /\ pointerEvents' = pointerEvents + 1)
         => dragState.nodeId = None
      /\ Cardinality(Dragging') <= 1 ]_vars

\* the handler runs that end a drag
DragEnds == {"pointerup-drop", "pointerupoutside-cancel", "longpress-cancel", "touchstart-cancel"}

\* C6: after every way a drag can end (pointer up, pointer up outside, long-press
\* timeout, a second finger touching) the drag state's node id is empty and no
\* cloud remains marked as being dragged; the velocity reported is the drag
\* state's velocity before the end.
C6_DragEndLeavesNothing ==
  lastOp \in DragEnds => (dragState.nodeId = None /\ Dragging = {})

\* ------------------------------------------------------------------------
\* Properties of the puff morph
\* ------------------------------------------------------------------------
Settled(c) ==
  /\ Len(c.currentPuffs) = Len(c.targetPuffs)
  /\ \A i \in 1..Len(c.targetPuffs) : ~PuffFar(c.currentPuffs[i], c.targetPuffs[i])

\* C9: a cloud reports itself not animating only when its current puff list has
\* the length of its target list and every current puff is within epsilon of
\* its target puff, after every change of target.
C9_SettledMeansAtTarget ==
  \A c \in DOMAIN clouds : ~isAnimating(clouds[c]) => Settled(clouds[c])

\* ------------------------------------------------------------------------
\* applyForces alone: one step after another on drawn graphs
\* ------------------------------------------------------------------------
FullSky == {"M1", "M2", "T1", "T2", "S1"}

\* where the second task lies: on its orbit, overlapping the first task, or
\* between the first task and the second milestone, overlapping both
T2Places == {[x |-> -30 * Scale, y |-> 100 * Scale], [x |-> 250 * Scale, y |-> 130 * Scale],
             [x |-> 200 * Scale, y |-> 200 * Scale]}

\* velocities the tasks and the second milestone enter the step with (a node
\* released from a drag carries the release velocity, whatever its kind)
ForceVelocities == {[vx |-> 0, vy |-> 0], [vx |-> 3 * Scale, vy |-> -Scale]}

\* the second task lies at one of T2Places or exactly where the first task lies
ForceGraphs(stor, focusedNode) ==
  LET base == createNodes(FullSky, stor, focusedNode, <<>>, [t \in Tasks |-> 10])
      first == base[FindNode(base, "T1")]
  IN { [i \in 1..Len(base) |->
          IF base[i].id = "T2"
          THEN [base[i] EXCEPT !.x = place.x, !.y = place.y, !.vx = v.vx, !.vy = v.vy]
          ELSE IF base[i].id \in {"T1", "M2"} THEN [base[i] EXCEPT !.vx = v.vx, !.vy = v.vy]
          ELSE base[i]] : place \in T2Places \cup {[x |-> first.x, y |-> first.y]},
                          v \in ForceVelocities }

\* no drag, or a task held ten pixels to the right of where it was pressed
ForceDrags(ns) ==
  {NoDrag} \cup
  { updateDragPhysics(startDragPhysics(NoDrag, d, ns[FindNode(ns, d)].x, ns[FindNode(ns, d)].y),
                      ns[FindNode(ns, d)].x + 10 * Scale, ns[FindNode(ns, d)].y) : d \in Tasks }

InitForces ==
  /\ sky = FullSky
  /\ stored \in StoredSets
  /\ focus \in {None, "M1", "T1", "S1"}
  /\ prevFocusedId = focus
  /\ nodes \in ForceGraphs(stored, focus)
  /\ clouds = [id \in {} |-> NewCloud(Node("M1", 0, 0, 0), TRUE)]
  /\ layoutMap \in { [k \in K |-> [x |-> nodes[FindNode(nodes, k)].x, y |-> nodes[FindNode(nodes, k)].y]] :
                       K \in SUBSET NodeIds(nodes) }
  /\ focusToken = 0
  /\ rafQueue = <<>>
  /\ dragState \in ForceDrags(nodes)
  /\ draggedCloud = IF dragState.nodeId = None THEN NoCloud
                    ELSE [id |-> dragState.nodeId, live |-> TRUE]
  /\ longPressTimer = FALSE
  /\ longPressTriggered = FALSE
  /\ pointers = IF dragState.nodeId = None THEN 0 ELSE 1
  /\ touchStartPending = FALSE
  /\ phase = "idle"
  /\ lastOp = "graph"
  /\ preStep = nodes
  /\ ticks = 0
  /\ commits = 0
  /\ pointerEvents = 0
  /\ limits = [commits |-> 0, ticks |-> MaxForceSteps, pointerEvents |-> 0]
  /\ undoActions = <<>>
  /\ db = NoDb
  /\ app = NoApp
  /\ probe = NoProbe

\* the applyForces call of the ticker callback, with the map keys as focusedSubtreeIds
ForceStep(jit) ==
  /\ ticks < limits.ticks
  /\ preStep' = nodes
  /\ LET step == applyForces(nodes, dragState, focus, focus # None,
                             FocusedSubtreeIds(layoutMap), jit)
     IN /\ nodes' = step.ns
        /\ probe' = [probe EXCEPT !.returned = step.maxVelocity, !.received = step.received]
  /\ ticks' = ticks + 1
  /\ lastOp' = "step"
  /\ UNCHANGED <<sky, stored, focus, prevFocusedId, clouds, layoutMap, focusToken, rafQueue,
                 inputVars, phase, commits, pointerEvents, limits, undoActions, db, app>>

NextForces == \E jit \in JitterDraws : ForceStep(jit)

SpecForces == InitForces /\ [][NextForces]_vars

BuildSkies == { {"M1", "M2", "T1"} \cup opt : opt \in SUBSET {"T2", "S1"} }

BuildStored == { [m \in Milestones |-> IF m = "M1" THEN p ELSE NoPos] :
                   p \in {NoPos, At(100 * Scale, 100 * Scale)} }

\* how far physics and drags have carried the nodes since they were built
Displacements == {[x |-> 0, y |-> 0], [x |-> 30 * Scale, y |-> 20 * Scale]}

\* the graphs nodesRef.current can hold when the build is called: none, or an
\* earlier build (with or without the subtask shown) moved since
PreviousGraphs(stor) ==
  {<<>>} \cup
  { [i \in 1..Len(g) |-> [g[i] EXCEPT !.x = @ + d.x, !.y = @ + d.y]] :
      g \in { createNodes({"M1", "M2", "T1"}, stor, None, <<>>, [t \in Tasks |-> 10]),
              createNodes(FullSky, stor, "T1", <<>>, [t \in Tasks |-> 10]) },
      d \in Displacements }

InitBuild ==
  /\ sky \in BuildSkies
  /\ stored \in BuildStored
  /\ focus \in {None, "T1"}
  /\ prevFocusedId = focus
  /\ nodes = <<>>
  /\ clouds = [id \in {} |-> NewCloud(Node("M1", 0, 0, 0), TRUE)]
  /\ layoutMap = EmptyMap
  /\ focusToken = 0
  /\ rafQueue = <<>>
  /\ dragState = NoDrag
  /\ draggedCloud = NoCloud
  /\ longPressTimer = FALSE
  /\ longPressTriggered = FALSE
  /\ pointers = 0
  /\ touchStartPending = FALSE
  /\ phase = "idle"
  /\ lastOp = "previous"
  /\ preStep = <<>>
  /\ ticks = 0
  /\ commits = 0
  /\ pointerEvents = 0
  /\ limits = [commits |-> 1, ticks |-> 0, pointerEvents |-> 0]
  /\ undoActions = <<>>
  /\ db = NoDb
  /\ app = NoApp
  /\ \E prev \in PreviousGraphs(stored) : probe = [NoProbe EXCEPT !.previousNodes = prev]

\* createNodes(milestones, width, height, focusedNode, previousNodes), called
\* twice; rnd1 and rnd2 are the Math.random() draws of the two calls
Build(rnd1, rnd2) ==
  /\ lastOp = "previous"
  /\ commits < limits.commits
  /\ nodes' = createNodes(sky, stored, focus, probe.previousNodes, rnd1)
  /\ probe' = [probe EXCEPT !.second = createNodes(sky, stored, focus, probe.previousNodes, rnd2)]
  /\ commits' = commits + 1
  /\ lastOp' = "built"
  /\ UNCHANGED <<sky, stored, focus, prevFocusedId, clouds, layoutMap, focusToken, rafQueue,
                 inputVars, phase, preStep, ticks, pointerEvents, limits, undoActions, db, app>>

NextBuild == \E rnd1 \in [Tasks -> RandomDraws], rnd2 \in [Tasks -> RandomDraws] : Build(rnd1, rnd2)

SpecBuild == InitBuild /\ [][NextBuild]_vars

InPrevious(id) == \E j \in 1..Len(probe.previousNodes) : probe.previousNodes[j].id = id

SamePlace(a, b) == a.x = b.x /\ a.y = b.y

\* C7 (as stated): every node, Group, Item or SubItem, whose id was present in
\* previousNodes and is still in the entity tree is returned at exactly the
\* position it had in previousNodes.
C7_EveryNodeKeepsPosition ==
  lastOp = "built" =>
    \A j \in 1..Len(probe.previousNodes) :
      probe.previousNodes[j].id \in sky =>
        \E i \in 1..Len(nodes) :
          nodes[i].id = probe.previousNodes[j].id /\ SamePlace(nodes[i], probe.previousNodes[j])

\* C7 (amended): every Item or SubItem node the build returns whose id was
\* present in previousNodes has exactly its previous position; a Group node is
\* returned at its stored position whatever previousNodes holds.
C7_ItemsKeepPosition ==
  lastOp = "built" =>
    \A i \in 1..Len(nodes) :
      /\ nodes[i].type # "milestone" =>
           \A j \in 1..Len(probe.previousNodes) :
             probe.previousNodes[j].id = nodes[i].id => SamePlace(nodes[i], probe.previousNodes[j])
      /\ (nodes[i].type = "milestone" /\ stored[nodes[i].id].set) =>
           SamePlace(nodes[i], stored[nodes[i].id])

\* a build that returns a task and a subtask where previousNodes had them,
\* away from their fresh layout, and a Group away from where previousNodes had it
C7_Witness ==
  /\ lastOp = "built"
  /\ \E i \in 1..Len(nodes), j \in 1..Len(probe.previousNodes) :
       /\ nodes[i].type = "task" /\ nodes[i].id = probe.previousNodes[j].id
       /\ SamePlace(nodes[i], probe.previousNodes[j])
       /\ ~SamePlace(nodes[i], createNodes(sky, stored, focus, <<>>, [t \in Tasks |-> 10])[i])
  /\ \E i \in 1..Len(nodes), j \in 1..Len(probe.previousNodes) :
       nodes[i].type = "subtask" /\ nodes[i].id = probe.previousNodes[j].id
  /\ \E i \in 1..Len(nodes), j \in 1..Len(probe.previousNodes) :
       /\ nodes[i].type = "milestone" /\ nodes[i].id = probe.previousNodes[j].id
       /\ ~SamePlace(nodes[i], probe.previousNodes[j])

\* C8 (as stated): two builds with the same previousNodes and the same entity
\* tree yield identical positions for every node, also for the nodes that were
\* not present in previousNodes.
C8_TwoBuildsAgree ==
  lastOp = "built" =>
    /\ Len(nodes) = Len(probe.second)
    /\ \A i \in 1..Len(nodes) : SamePlace(nodes[i], probe.second[i])

\* the nodes whose position no Math.random() draw enters
DrawFree(n) ==
  \/ n.type = "milestone"
  \/ InPrevious(n.id)
  \/ n.type = "subtask" /\ InPrevious(n.parentId)

\* C8 (amended): two builds with the same previousNodes and the same entity
\* tree return the same nodes in the same order, at identical positions for
\* every Group, for every node that was present in previousNodes and for every
\* SubItem whose Item was present in previousNodes.
C8_TwoBuildsAgreeButNewItems ==
  lastOp = "built" =>
    /\ Len(nodes) = Len(probe.second)
    /\ \A i \in 1..Len(nodes) :
         /\ nodes[i].id = probe.second[i].id
         /\ DrawFree(nodes[i]) => SamePlace(nodes[i], probe.second[i])

\* two builds that disagree on a new task and agree on a node that is also new
C8_Witness ==
  /\ lastOp = "built"
  /\ \E i \in 1..Len(nodes) :
       nodes[i].type = "task" /\ ~InPrevious(nodes[i].id) /\ ~SamePlace(nodes[i], probe.second[i])
  /\ \E k \in 1..Len(nodes) :
       ~InPrevious(nodes[k].id) /\ DrawFree(nodes[k]) /\ SamePlace(nodes[k], probe.second[k])

\* ------------------------------------------------------------------------
\* Cloud.update alone: one cloud advanced towards a target that stays fixed
\* ------------------------------------------------------------------------
MorphRadii == {TASK_RADIUS_BASE * Scale, MILESTONE_RADIUS * Scale}

RestingCloud(radius) == NewCloud(Node("T1", 0, 0, radius), TRUE)

\* a cloud after enough update calls: update has copied the target puff by puff
\* and then set morphComplete
AfterMorph(c) == [c EXCEPT !.currentPuffs = c.targetPuffs, !.morphComplete = TRUE]

\* the clouds the canvas hands to update with a morph ahead of them: one that
\* became the focused node, one that became a child of it, one that was settled
\* on the focused shape when the focus left it, and one that was sized by the
\* layout callback without being flagged and then had its flags cleared
MorphStarts(radius) ==
  { setFocused(RestingCloud(radius), TRUE),
    setChildOfFocused(RestingCloud(radius), TRUE),
    setChildOfFocused(
      setFocused(updateNode(AfterMorph(setFocused(RestingCloud(radius), TRUE))), FALSE), FALSE),
    setChildOfFocused(
      setFocused(AfterMorph(computeRequiredSizeNow(RestingCloud(radius), "focused")), FALSE),
      FALSE) }

InitMorph ==
  /\ sky = {"M1", "T1"}
  /\ stored = [m \in Milestones |-> NoPos]
  /\ focus = None
  /\ prevFocusedId = None
  /\ nodes = <<>>
  /\ \E radius \in MorphRadii, held \in BOOLEAN : \E start \in MorphStarts(radius) :
       LET c == IF held THEN startDrag(start) ELSE start
       IN /\ clouds = [id \in {"T1"} |-> c]
          /\ probe = [NoProbe EXCEPT !.morphFrom = c.currentPuffs]
  /\ layoutMap = EmptyMap
  /\ focusToken = 0
  /\ rafQueue = <<>>
  /\ dragState = NoDrag
  /\ draggedCloud = NoCloud
  /\ longPressTimer = FALSE
  /\ longPressTriggered = FALSE
  /\ pointers = 0
  /\ touchStartPending = FALSE
  /\ phase = "idle"
  /\ lastOp = "target"
  /\ preStep = <<>>
  /\ ticks = 0
  /\ commits = 0
  /\ pointerEvents = 0
  /\ limits = [commits |-> 0, ticks |-> MaxMorphTicks, pointerEvents |-> 0]
  /\ undoActions = <<>>
  /\ db = NoDb
  /\ app = NoApp

\* cloud.update(deltaTime, frameTime) on every cloud, nothing else
Advance(deltaTime) ==
  /\ ticks < limits.ticks
  /\ clouds' = [c \in DOMAIN clouds |-> update(clouds[c], deltaTime, TRUE)]
  /\ ticks' = ticks + 1
  /\ lastOp' = "advance"
  /\ UNCHANGED <<sky, stored, focus, prevFocusedId, nodes, layoutMap, focusToken, rafQueue,
                 inputVars, phase, preStep, commits, pointerEvents, limits, undoActions, db, app, probe>>

NextMorph == \E deltaTime \in DeltaTimes : Advance(deltaTime)

SpecMorph == InitMorph /\ [][NextMorph]_vars

\* the largest coordinate distance between two puff lists, the shorter one
\* padded as update pads it
PuffDistance(cur, tgt) ==
  LET sized == ResizePuffs(cur, Len(tgt))
      ds == {0} \cup UNION { { Abs(sized[i].x - tgt[i].x), Abs(sized[i].y - tgt[i].y),
                               Abs(sized[i].r - tgt[i].r) } : i \in 1..Len(tgt) }
  IN CHOOSE d \in ds : \A e \in ds : e <= d

\* update calls that take a distance d below the threshold at deltaTime 1
RECURSIVE StepsBelow(_)
StepsBelow(d) == IF d <= MorphEpsilon THEN 0 ELSE 1 + StepsBelow(d - Div(d, 4))

\* one more call sets morphComplete, one more follows a grown puff list
SettleBound(c) == StepsBelow(PuffDistance(probe.morphFrom, c.targetPuffs)) + 2

\* C10: with the target puff list fixed, repeated update calls bring the cloud
\* to the settled state within a number of calls bounded by its initial
\* distance to the target, and it is settled after every further call.
C10_SettlesWithinBound ==
  \A c \in DOMAIN clouds :
    ticks >= SettleBound(clouds[c]) => (~isAnimating(clouds[c]) /\ Settled(clouds[c]))

\* ------------------------------------------------------------------------
\* Properties of the puff list length
\* ------------------------------------------------------------------------
AtFullSize(c) == \A i \in 1..Len(c.currentPuffs) :
                   i <= Len(c.targetPuffs) /\ ~PuffFar(c.currentPuffs[i], c.targetPuffs[i])

BornAtOrigin(p, tgt) == \E deltaTime \in DeltaTimes : p = MorphPuff(Puff(0, 0, 0), tgt, deltaTime)

\* C11: the current puff list of a cloud never changes length abruptly: every
\* puff that newly appears in it has started at the local origin with radius 0
\* (it is where update's interpolation takes such a puff), and a list is never
\* followed by a list of another length whose puffs are all at full size.
C11_NoAbruptLengthChange ==
  [][ \A c \in DOMAIN clouds \cap DOMAIN clouds' :
        LET before == clouds[c].currentPuffs
            after == clouds'[c].currentPuffs
        IN Len(after) # Len(before) =>
             /\ \A i \in (Len(before) + 1)..Len(after) :
                  i <= Len(clouds'[c].targetPuffs)
                  /\ BornAtOrigin(after[i], clouds'[c].targetPuffs[i])
             /\ ~AtFullSize(clouds'[c]) ]_vars

\* ------------------------------------------------------------------------
\* the branches of applyForces, seen from outside one step
\* ------------------------------------------------------------------------
\* the branch node i of the graph before the step took in the step
BranchTaken(i) == NodeBranch(preStep, i, dragState, focus, focus # None,
                             FocusedSubtreeIds(layoutMap))

\* a and b lie at a positive distance below the sum of their radii and the padding
Overlapping(a, b) ==
  /\ a.x # b.x \/ a.y # b.y
  /\ Hypot(b.x - a.x, b.y - a.y) < a.radius + b.radius + 20 * Scale

FreeStep == lastOp = "step" /\ focus = None

SamePosition(i) == nodes[i].x = preStep[i].x /\ nodes[i].y = preStep[i].y

\* C12 (as stated): in free mode the repulsion still acts on a milestone: a
\* milestone overlapped by a simulated node leaves the step with a velocity or a
\* position the repulsion gave it.
C12_RepulsionStillMovesGroups ==
  FreeStep =>
    \A i \in 1..Len(nodes) :
      (/\ BranchTaken(i) = "locked"
       /\ preStep[i].type = "milestone"
       /\ \E j \in 1..Len(nodes) : BranchTaken(j) = "simulated" /\ Overlapping(preStep[j], preStep[i]))
      => (nodes[i].vx # 0 \/ nodes[i].vy # 0 \/ ~SamePosition(i))

\* C12 (amended): in free mode a milestone that is not dragged leaves every step
\* where it was and with zero velocity, whatever velocity it entered with and
\* whatever overlaps it: neither repulsion, drag-wake, parent attraction, jitter
\* nor release momentum moves it.
C12_GroupsFullyLocked ==
  FreeStep =>
    \A i \in 1..Len(nodes) :
      (preStep[i].type = "milestone" /\ preStep[i].id # dragState.nodeId)
      => (SamePosition(i) /\ nodes[i].vx = 0 /\ nodes[i].vy = 0)

\* a free-mode step in which a milestone outside the map entered with velocity,
\* the inner loop of an overlapping simulated node added repulsion to it, and it
\* stayed where it was with zero velocity
C12_Witness ==
  /\ FreeStep
  /\ \E i, j \in 1..Len(nodes) :
       /\ BranchTaken(i) = "locked" /\ preStep[i].type = "milestone"
       /\ preStep[i].vx # 0
       /\ BranchTaken(j) = "simulated" /\ Overlapping(preStep[j], preStep[i])
       /\ probe.received[<<i, j>>] # [fx |-> 0, fy |-> 0]
       /\ SamePosition(i) /\ nodes[i].vx = 0 /\ nodes[i].vy = 0

\* the velocity node a received in the step on account of node b points away
\* from b
PushedAway(a, b) ==
  LET got == probe.received[<<a, b>>]
  IN got.fx * (preStep[a].x - preStep[b].x) + got.fy * (preStep[a].y - preStep[b].y) > 0

\* C13: in free mode every simulated node receives a repulsive velocity change
\* directed away from every other node, of any kind, that lies at a positive
\* distance below the sum of the radii and the padding, whichever of the two
\* comes first in the node array.
C13_RepelledByEveryOverlappingNode ==
  FreeStep =>
    \A a, b \in 1..Len(nodes) :
      (a # b /\ BranchTaken(a) = "simulated" /\ Overlapping(preStep[a], preStep[b]))
      => PushedAway(a, b)

\* C14: while a node is dragged, a simulated node overlapping the dragged node
\* receives three times the repulsion the same geometry gives with no drag,
\* whichever of the two comes first in the node array (rounding apart).
C14_TripledAgainstDraggedNode ==
  (lastOp = "step" /\ dragState.nodeId # None) =>
    \A a, d \in 1..Len(nodes) :
      (/\ a # d
       /\ preStep[d].id = dragState.nodeId
       /\ BranchTaken(a) = "simulated"
       /\ Overlapping(preStep[a], preStep[d]))
      => LET plain == RepulsionForce(preStep[a], preStep[d], NoDrag)
             got == probe.received[<<a, d>>]
         IN /\ Abs(got.fx + 3 * plain.fx) <= 3
            /\ Abs(got.fy + 3 * plain.fy) <= 3

FocusStep == lastOp = "step" /\ focus # None

\* the velocity of node i after the step is 0.85 times the velocity before it,
\* and the node has not moved
OnlyDamped(i) ==
  /\ SamePosition(i)
  /\ nodes[i].vx = Div(preStep[i].vx * 85, 100)
  /\ nodes[i].vy = Div(preStep[i].vy * 85, 100)

\* node i is not dragged, not focused and not a child of the focused node
Background(i) ==
  /\ preStep[i].id # dragState.nodeId
  /\ preStep[i].id # focus
  /\ preStep[i].parentId # focus

\* node i is the parent of the focused node, which is a subtask
ParentOfFocusedSubItem(i) ==
  \E f \in 1..Len(preStep) :
    preStep[f].id = focus /\ preStep[f].type = "subtask" /\ preStep[f].parentId = preStep[i].id

\* C15 (as stated): in focus mode a step changes a node that is not dragged, not
\* focused and not a child of the focused node only by multiplying its velocity
\* by 0.85.
C15_BackgroundOnlyDamped ==
  FocusStep => \A i \in 1..Len(nodes) : Background(i) => OnlyDamped(i)

\* C15 (amended): in focus mode a step changes a node that is not dragged, not a
\* key of the focus layout map, not focused, not a child of the focused node and
\* not the parent of a focused subtask only by multiplying its velocity by 0.85;
\* the parent of a focused subtask outside the map is left as it was, and a key
\* of the map leaves with zero velocity.
C15_BackgroundOutsideSubtreeOnlyDamped ==
  FocusStep =>
    \A i \in 1..Len(nodes) :
      Background(i) =>
        IF preStep[i].id \in DOMAIN layoutMap
        THEN SamePosition(i) /\ nodes[i].vx = 0 /\ nodes[i].vy = 0
        ELSE IF ParentOfFocusedSubItem(i) THEN nodes[i] = preStep[i]
        ELSE OnlyDamped(i)

\* a focus-mode step in which a background node outside the map entered with
\* velocity while overlapping another node, and left damped where it was
C15_Witness ==
  /\ FocusStep
  /\ \E i, j \in 1..Len(nodes) :
       /\ Background(i) /\ preStep[i].id \notin DOMAIN layoutMap
       /\ ~ParentOfFocusedSubItem(i)
       /\ preStep[i].vx # 0
       /\ Overlapping(preStep[i], preStep[j])
       /\ OnlyDamped(i) /\ nodes[i].vx # preStep[i].vx

\* how far node i moved in the step
Moved(i) == Hypot(nodes[i].x - preStep[i].x, nodes[i].y - preStep[i].y)

\* C16: the speed is clamped before integration: in every step a simulated node
\* advances by at most the maximum velocity.
C16_MovesAtMostMaxVelocity ==
  lastOp = "step" =>
    \A i \in 1..Len(nodes) :
      BranchTaken(i) = "simulated" => Moved(i) <= MAX_VELOCITY * Scale

\* a step in which the forces gave some node a speed above the maximum velocity
\* and a simulated node advanced by the maximum velocity (rounding apart)
C16_Witness ==
  /\ lastOp = "step"
  /\ probe.returned > MAX_VELOCITY * Scale
  /\ \E i \in 1..Len(nodes) :
       /\ BranchTaken(i) = "simulated"
       /\ Moved(i) >= MAX_VELOCITY * Scale - 2
       /\ Moved(i) <= MAX_VELOCITY * Scale

\* nodes a and b of the graph before the step lie at identical coordinates
Coincide(a, b) == preStep[a].x = preStep[b].x /\ preStep[a].y = preStep[b].y

NothingReceived(a, b) == probe.received[<<a, b>>] = [fx |-> 0, fy |-> 0]

\* C17: two nodes at identical coordinates do not interact: a step adds no
\* repulsive velocity to either on account of the other; the quotient by the
\* distance is never formed for them, and the step completes.
C17_CoincidentPairDoesNotInteract ==
  lastOp = "step" =>
    \A a, b \in 1..Len(nodes) :
      (a # b /\ Coincide(a, b)) => (NothingReceived(a, b) /\ NothingReceived(b, a))

\* a completed step whose inner loop met a pair of simulated nodes at identical
\* coordinates: neither received anything from the other, and both moved on
\* under the other forces
C17_Witness ==
  /\ lastOp = "step"
  /\ \E a, b \in 1..Len(nodes) :
       /\ a < b /\ Coincide(a, b)
       /\ BranchTaken(a) = "simulated" /\ BranchTaken(b) = "simulated"
       /\ NothingReceived(a, b) /\ NothingReceived(b, a)
       /\ ~SamePosition(a) /\ ~SamePosition(b)

\* the largest distance a node moved in the step, zero for an empty graph
RECURSIVE LargestMove(_)
LargestMove(n) == IF n = 0 THEN 0 ELSE Max2(Moved(n), LargestMove(n - 1))

\* C19: the value a step returns is the largest speed at which a node actually
\* moved in that step, zero when no node moved.
C19_ReturnsLargestActualSpeed ==
  lastOp = "step" => probe.returned = LargestMove(Len(nodes))

\* ------------------------------------------------------------------------
\* the drag functions alone: start, update and end called in any order
\* ------------------------------------------------------------------------
\* the pointer positions the calls are made with
DragPoints == {[x |-> 0, y |-> 0], [x |-> 30 * Scale, y |-> -10 * Scale],
               [x |-> 35 * Scale, y |-> 20 * Scale]}

InitDrag ==
  /\ sky = {}
  /\ stored = [m \in Milestones |-> NoPos]
  /\ focus = None
  /\ prevFocusedId = None
  /\ nodes = <<>>
  /\ clouds = [id \in {} |-> NewCloud(Node("M1", 0, 0, 0), TRUE)]
  /\ layoutMap = EmptyMap
  /\ focusToken = 0
  /\ rafQueue = <<>>
  /\ dragState = NoDrag
  /\ draggedCloud = NoCloud
  /\ longPressTimer = FALSE
  /\ longPressTriggered = FALSE
  /\ pointers = 0
  /\ touchStartPending = FALSE
  /\ phase = "idle"
  /\ lastOp = "module"
  /\ preStep = <<>>
  /\ ticks = 0
  /\ commits = 0
  /\ pointerEvents = 0
  /\ limits = [commits |-> 0, ticks |-> 0, pointerEvents |-> MaxDragCalls]
  /\ undoActions = <<>>
  /\ db = NoDb
  /\ app = NoApp
  /\ probe = NoProbe

DragCall(op, after, history) ==
  /\ pointerEvents < limits.pointerEvents
  /\ dragState' = after
  /\ probe' = [probe EXCEPT !.dragBefore = dragState, !.history = history]
  /\ lastOp' = op
  /\ pointerEvents' = pointerEvents + 1
  /\ UNCHANGED <<canvasVars, draggedCloud, longPressTimer, longPressTriggered, pointers,
                 touchStartPending, phase, preStep, ticks, commits, limits, undoActions, db, app>>

\* startDragPhysics(nodeId, x, y)
StartDragCall(nodeId, pt) ==
  DragCall("start", startDragPhysics(dragState, nodeId, pt.x, pt.y),
           [updates |-> 0, rising |-> TRUE])

\* updateDragPhysics(x, y); the history counts the updates of the active drag
\* and tells whether each of them moved x strictly to the right
UpdateDragCall(pt) ==
  DragCall("update", updateDragPhysics(dragState, pt.x, pt.y),
           IF dragState.nodeId = None THEN probe.history
           ELSE [updates |-> probe.history.updates + 1,
                 rising |-> probe.history.rising /\ pt.x > dragState.x])

\* endDragPhysics(), whose return value is kept
EndDragCall ==
  /\ pointerEvents < limits.pointerEvents
  /\ dragState' = endDragPhysics(dragState)
  /\ probe' = [probe EXCEPT !.dragBefore = dragState, !.released = ReleaseVelocity(dragState)]
  /\ lastOp' = "end"
  /\ pointerEvents' = pointerEvents + 1
  /\ UNCHANGED <<canvasVars, draggedCloud, longPressTimer, longPressTriggered, pointers,
                 touchStartPending, phase, preStep, ticks, commits, limits, undoActions, db, app>>

NextDrag ==
  \/ \E nodeId \in Tasks, pt \in DragPoints : StartDragCall(nodeId, pt)
  \/ \E pt \in DragPoints : UpdateDragCall(pt)
  \/ EndDragCall

SpecDrag == InitDrag /\ [][NextDrag]_vars

\* C20: ending a drag when no drag is active returns zero velocity and leaves
\* the drag state as it was, after any sequence of start, update and end calls,
\* updates made while no drag was active included.
C20_EndWhileIdleIsNoOp ==
  (lastOp = "end" /\ probe.dragBefore.nodeId = None) =>
    (probe.released = [vx |-> 0, vy |-> 0] /\ dragState = probe.dragBefore)

\* an end call made while no drag was active, after an earlier drag that had
\* been started, updated to another point and ended: it returned zero velocity
C20_Witness ==
  /\ lastOp = "end"
  /\ probe.dragBefore.nodeId = None
  /\ probe.dragBefore.x # probe.dragBefore.prevX
  /\ probe.released = [vx |-> 0, vy |-> 0]
  /\ dragState = probe.dragBefore

\* ------------------------------------------------------------------------
\* positions under every operation of the component
\* ------------------------------------------------------------------------
\* every placement of the component (stored positions, orbits, the focus layout,
\* the positions a pointer reports) lies within this distance of the origin on
\* both axes
PlacementReach == 500 * Scale

\* the distance from the origin a coordinate can have reached after the ticks
\* taken so far, a step advancing a node by at most the maximum velocity
Reach == PlacementReach + ticks * MAX_VELOCITY * Scale

FocusedChildless(ns, f) == f # None /\ FindNode(ns, f) # 0 /\ Len(ChildrenOf(ns, f)) = 0

\* the map holds the focused node at its position in the graph and nothing else
OnlyFocusedEntry(map, ns, f) ==
  /\ DOMAIN map = {f}
  /\ map[f] = [x |-> ns[FindNode(ns, f)].x, y |-> ns[FindNode(ns, f)].y]

\* C21: when the focused node has no children, the map holds exactly one entry
\* after a layout refresh (called alone, or by the effects of a data or focus
\* commit): the focused node at its current position; and the refresh called
\* alone has changed no node.
C21_ChildlessRefreshStoresFocusedOnly ==
  [][ (/\ commits' = commits + 1
       /\ lastOp' \in {"refresh", "focus", "data"}
       /\ FocusedChildless(nodes', focus'))
      => (/\ OnlyFocusedEntry(layoutMap', nodes', focus')
          /\ lastOp' = "refresh" => nodes' = nodes) ]_vars

\* a refresh called alone, after at least one frame, for a focused node without
\* children: the map holds the focused node at its position and nothing else
C21_Witness ==
  /\ lastOp = "refresh"
  /\ FocusedChildless(nodes, focus)
  /\ OnlyFocusedEntry(layoutMap, nodes, focus)
  /\ ticks > 0

\* ------------------------------------------------------------------------
\* refreshFocusLayout called again and again on an unchanged focused subtree
\* ------------------------------------------------------------------------
\* the refs of the component after construction
MountedCanvas == [nodes |-> <<>>, clouds |-> [id \in {} |-> NewCloud(Node("M1", 0, 0, 0), TRUE)],
                  layoutMap |-> EmptyMap, focusToken |-> 0, rafQueue |-> <<>>]

\* every scheduled animation-frame callback runs, oldest first
RECURSIVE RunAll(_)
RunAll(cv) ==
  IF cv.rafQueue = <<>> THEN cv
  ELSE RunAll(RunCallback([cv EXCEPT !.rafQueue = Tail(@)], Head(cv.rafQueue)))

Positions(ns) == [i \in 1..Len(ns) |-> [id |-> ns[i].id, x |-> ns[i].x, y |-> ns[i].y]]

\* what one refresh leaves once its callbacks have run
Outcome(cv) == [layoutMap |-> cv.layoutMap, positions |-> Positions(cv.nodes)]

InitRefresh ==
  /\ sky \in SkySets
  /\ stored \in StoredSets
  /\ focus \in sky
  /\ prevFocusedId = focus
  \* the first skyData has arrived and the node has been focused: the effects
  \* of the two commits, in their order
  /\ \E loaded \in {SkyEffect(MountedCanvas, sky, stored, None, None, [t \in Tasks |-> 10])} :
       \E entered \in {FocusEffect(loaded, focus, None)} :
         \E cv \in {SkyEffect(entered, sky, stored, focus, focus, [t \in Tasks |-> 0])} :
           /\ nodes = cv.nodes
           /\ clouds = cv.clouds
           /\ layoutMap = cv.layoutMap
           /\ focusToken = cv.focusToken
           /\ rafQueue = cv.rafQueue
           /\ \E drained \in {RunAll(cv)} : probe = [NoProbe EXCEPT !.once = Outcome(drained)]
  /\ dragState = NoDrag
  /\ draggedCloud = NoCloud
  /\ longPressTimer = FALSE
  /\ longPressTriggered = FALSE
  /\ pointers = 0
  /\ touchStartPending = FALSE
  /\ phase = "idle"
  /\ lastOp = "focus"
  /\ preStep = <<>>
  /\ ticks = 0
  /\ commits = 0
  /\ pointerEvents = 0
  /\ limits = [commits |-> MaxRefreshCalls, ticks |-> MaxRefreshTicks, pointerEvents |-> 0]
  /\ undoActions = <<>>
  /\ db = NoDb
  /\ app = NoApp

NextRefresh ==
  \/ RefreshFocusLayout
  \/ \E deltaTime \in DeltaTimes, jit \in JitterDraws, spawnOver \in SpawnDraws(clouds) :
       Tick(deltaTime, jit, spawnOver)
  \/ RunRaf

SpecRefresh == InitRefresh /\ [][NextRefresh]_vars

\* every scheduled callback has run
Drained == rafQueue = <<>> /\ phase = "idle"

\* C22: refreshFocusLayout is idempotent: with the focused node, its children
\* and their content unchanged, once every scheduled animation-frame callback
\* has run, any number of further calls has left the map and the node positions
\* that the one refresh of the focus entry leaves.
C22_RefreshIsIdempotent ==
  Drained => Outcome(Canvas) = probe.once

\* refreshFocusLayout was called twice more on a node with children, the
\* callbacks have run, and the map holds the subtree as after one refresh
C22_Witness ==
  /\ Drained
  /\ lastOp = "raf"
  /\ commits = 2
  /\ Cardinality(DOMAIN layoutMap) > 1
  /\ Outcome(Canvas) = probe.once

\* ------------------------------------------------------------------------
\* Rebuilds and focus changes over skies in which both tasks own a subtask
\* ------------------------------------------------------------------------
MaxGraphCommits == 5

GraphSkies == { {"M1", "M2", "T1", "T2"} \cup subs : subs \in SUBSET {"S1", "S2"} }

InitGraph ==
  /\ Mounted
  /\ limits = [commits |-> MaxGraphCommits, ticks |-> 0, pointerEvents |-> 0]
  /\ undoActions = <<>>
  /\ db = NoDb
  /\ app = NoApp

NextGraph ==
  \/ \E skyNew \in GraphSkies, storNew \in StoredSets :
       \E rnd \in RndFor(skyNew, nodes) : SkyDataChange(skyNew, storNew, rnd)
  \/ \E f \in Ids \cup {None} : FocusChange(f)

SpecGraph == InitGraph /\ [][NextGraph]_vars

OwnerOrSiblingFocused(s) ==
  \/ focus = ParentOf(s)
  \/ focus \in Subtasks /\ ParentOf(focus) = ParentOf(s)

C24_PlacementReadsSynthesizedCoverage ==
  \A id \in DOMAIN clouds :
    clouds[id].requiredCoverageR # 0 => clouds[id].requiredCoverageR = clouds[id].coverageR

\* ------------------------------------------------------------------------
\* refreshFocusLayout: the orbit radius, for up to MaxChildren children
\* ------------------------------------------------------------------------
MaxChildren == 12

\* no component is mounted: only functions of the modules are exercised
Unmounted ==
  /\ sky = {}
  /\ stored = [m \in Milestones |-> NoPos]
  /\ focus = None
  /\ prevFocusedId = None
  /\ nodes = <<>>
  /\ clouds = [id \in {} |-> NewCloud(Node("M1", 0, 0, 0), TRUE)]
  /\ layoutMap = EmptyMap
  /\ focusToken = 0
  /\ rafQueue = <<>>
  /\ dragState = NoDrag
  /\ draggedCloud = NoCloud
  /\ longPressTimer = FALSE
  /\ longPressTriggered = FALSE
  /\ pointers = 0
  /\ touchStartPending = FALSE
  /\ phase = "idle"
  /\ preStep = <<>>
  /\ ticks = 0
  /\ commits = 0
  /\ pointerEvents = 0

\* parentCloud.requiredCoverageR || parentNode.radius, in pixels
ParentCoverages == {35, 120, 155}

\* childCloud.requiredCoverageR || (child.radius + 40), in pixels
ChildCoverages == {60, 66, 100}

InitOrbit ==
  /\ Unmounted
  /\ lastOp = "module"
  /\ limits = [commits |-> 0, ticks |-> 0, pointerEvents |-> 0]
  /\ undoActions = <<>>
  /\ db = NoDb
  /\ app = NoApp
  /\ \E p \in ParentCoverages, c \in ChildCoverages, n \in 1..MaxChildren :
       probe = [NoProbe EXCEPT !.orbit =
                  [parentCoverageR |-> p * Scale, maxChildR |-> c * Scale, childCount |-> n,
                   placed |-> FALSE, orbitRadius |-> 0, first |-> [x |-> 0, y |-> 0]]]

\* the orbit radius and the first child's position around a parent at the origin
PlaceOnOrbit ==
  /\ ~probe.orbit.placed
  /\ LET o == probe.orbit
         orbitRadius == OrbitRadius(o.parentCoverageR, o.maxChildR, o.childCount)
     IN probe' = [probe EXCEPT !.orbit =
                    [o EXCEPT !.placed = TRUE,
                              !.orbitRadius = orbitRadius,
                              !.first = OrbitPos(Node("M1", 0, 0, 0), 0, o.childCount, orbitRadius)]]
  /\ lastOp' = "place"
  /\ UNCHANGED <<canvasVars, inputVars, phase, preStep, ticks, commits, pointerEvents, limits, undoActions, db, app>>

NextOrbit == PlaceOnOrbit

SpecOrbit == InitOrbit /\ [][NextOrbit]_vars

\* the arc the density guard reserves for the children, in thousandths
ArcNeeded(o) == o.childCount * (o.maxChildR * 2 + 30 * Scale) * 1000

Word(hi, lo) == [hi |-> hi, lo |-> lo]

RECURSIVE Xor16(_, _, _)
Xor16(a, b, bits) ==
  IF bits = 0 THEN 0
  ELSE ((a + b) % 2) + 2 * Xor16(a \div 2, b \div 2, bits - 1)

Add32(a, b) ==
  Word((a.hi + b.hi + (a.lo + b.lo) \div 65536) % 65536, (a.lo + b.lo) % 65536)

\* SeededRandom.next(): the state after the call and the 32-bit numerator of
\* the draw; 0x6D2B79F5 is Word(27947, 31221)
SeededNext(state) ==
  LET Xor32(a, b) == Word(Xor16(a.hi, b.hi, 16), Xor16(a.lo, b.lo, 16))
      \* a | b for b below 2^16
      OrLow(a, b) == Word(a.hi, (a.lo + b + Xor16(a.lo, b, 16)) \div 2)
      \* a >>> k for 0 < k < 16
      Shr32(a, k) ==
        Word(a.hi \div (2 ^ k), (a.hi % (2 ^ k)) * (2 ^ (16 - k)) + a.lo \div (2 ^ k))
      \* the 32-bit product of two 16-bit halves
      Mul16(a, b) ==
        LET q == (a \div 256) * b
            r == (a % 256) * b + (q % 256) * 256
        IN Word((r \div 65536 + q \div 256) % 65536, r % 65536)
      \* Math.imul: the low 32 bits of the product
      Imul(a, b) ==
        Word((Mul16(a.lo, b.lo).hi + Mul16(a.hi, b.lo).lo + Mul16(a.lo, b.hi).lo) % 65536,
             Mul16(a.lo, b.lo).lo)
      s == Add32(state, Word(27947, 31221))
      t1 == Imul(Xor32(s, Shr32(s, 15)), OrLow(s, 1))
      t2 == Xor32(t1, Add32(t1, Imul(Xor32(t1, Shr32(t1, 7)), OrLow(t1, 61))))
  IN [state |-> s, value |-> Xor32(t2, Shr32(t2, 14))]

\* n successive draws rng.next(), each in 65536ths (the high half of the
\* numerator); each call adds 0x6D2B79F5 to the state
SeededDraws(seed, n) ==
  LET StateAfter(k) ==
        Word((seed.hi + k * 27947 + (seed.lo + k * 31221) \div 65536) % 65536,
             (seed.lo + k * 31221) % 65536)
  IN [k \in 1..n |-> SeededNext(StateAfter(k - 1)).value.hi]

\* str.charCodeAt over the strings the seed is built from
CharCodes(str) ==
  CASE str = "M1" -> <<77, 49>>
    [] str = "M2" -> <<77, 50>>
    [] str = "T1" -> <<84, 49>>
    [] str = "T2" -> <<84, 50>>
    [] str = "S1" -> <<83, 49>>
    [] str = "S2" -> <<83, 50>>
    [] str = "focused" -> <<102, 111, 99, 117, 115, 101, 100>>
    [] str = "child" -> <<99, 104, 105, 108, 100>>
    [] str = "-" -> <<45>>

\* the decimal digits of a non-negative integer, as char codes
RECURSIVE Digits(_)
Digits(n) == IF n < 10 THEN <<48 + n>> ELSE Digits(n \div 10) \o <<48 + (n % 10)>>

\* hash = ((hash << 5) - hash) + char; hash = hash & hash
RECURSIVE HashChars(_, _)
HashChars(hash, chars) ==
  IF chars = <<>> THEN hash
  ELSE LET lo == hash.lo * 31 + Head(chars)
       IN HashChars(Word((hash.hi * 31 + lo \div 65536) % 65536, lo % 65536), Tail(chars))

createMorphSeed(nodeId, mode, requiredW, requiredH) ==
  LET \* Math.round(required / 10), the required size in pixels
      RoundTens(required) == (required + 5 * Scale) \div (10 * Scale)
      hash == HashChars(Word(0, 0),
                CharCodes(nodeId) \o CharCodes("-") \o CharCodes(mode) \o CharCodes("-")
                  \o Digits(RoundTens(requiredW)) \o CharCodes("-") \o Digits(RoundTens(requiredH)))
  \* Math.abs(hash) >>> 0 of the signed 32-bit hash
  IN IF hash.hi < 32768 THEN hash
     ELSE Add32(Word(65535 - hash.hi, 65535 - hash.lo), Word(0, 1))

\* ------------------------------------------------------------------------
\* Cloud.ts: computeMorphPuffs with its seeded draws, the whole target list
\* ------------------------------------------------------------------------
\* (mutation) the child profile counting the list under animation
TotalPuffCountAnimated(c, nodeId, rx, ry) ==
  IF c.isChildOfFocusedNode
  THEN Max2(10, Len(c.currentPuffs) * 2)
  ELSE Min2(34, Max2(24, 18 + Div(Div(rx * ry, Scale * Scale) * 3142, 5500 * 1000)))

\* totalPuffCount; basePuffs.length is 1 + bumpCount, Math.PI is 3142 / 1000
TotalPuffCount(c, nodeId, rx, ry) ==
  IF c.isChildOfFocusedNode
  THEN LET bumpCount == IF TypeOf(nodeId) = "milestone" THEN 7
                        ELSE IF TypeOf(nodeId) = "task" THEN 6 ELSE 5
       IN Max2(10, (1 + bumpCount) * 2)
  ELSE Min2(34, Max2(24, 18 + Div(Div(rx * ry, Scale * Scale) * 3142, 5500 * 1000)))

SeededTarget(c, nodeId, requiredW, requiredH) ==
  LET \* v * (base + draw * span), base and span in hundredths, draw in 65536ths
      Vary(v, draw, base, span) == Div(v * base, 100) + Div(Div(v * draw, 65536) * span, 100)
      \* Math.cos / Math.sin of an angle, read at the nearest multiple of 30 degrees
      Polar(deg, dist, r) ==
        Puff(Div(Cos1000(((deg + 15) \div 30) * 30) * dist, 1000),
             Div(Sin1000(((deg + 15) \div 30) * 30) * dist, 1000), r)
      isChild == c.isChildOfFocusedNode
      rx == requiredW \div 2 + 25 * Scale
      ry == requiredH \div 2 + 25 * Scale
      R == Max2(rx, ry)
      totalPuffCount == TotalPuffCount(c, nodeId, rx, ry)
      interiorCount == (totalPuffCount * (IF isChild THEN 65 ELSE 80)) \div 100
      ringCount == totalPuffCount - interiorCount
      ringN == IF isChild THEN Min2(4, ringCount) ELSE ringCount - 1
      cornerN == IF isChild THEN 0 ELSE 4
      interiorN == IF isChild THEN totalPuffCount - ringN - 1 ELSE interiorCount
      noiseAmp == IF isChild THEN 15 ELSE 200
      puffRadiusBase == Max2(Div(R * 27, 100), 18 * Scale)
      puffRadiusMin == IF isChild THEN Max2(8 * Scale, Div(R * 15, 100)) ELSE 14 * Scale
      puffRadiusMax == IF isChild THEN Max2(16 * Scale, Div(R * 40, 100))
                       ELSE Min2(Div(R * 45, 100), 40 * Scale)
      centerR == IF isChild THEN Max2(Div(puffRadiusMax * 12, 10), Div(R * 50, 100))
                 ELSE Div(Min2(rx, ry) * 45, 100)
      u == SeededDraws(createMorphSeed(nodeId, IF isChild THEN "child" ELSE "focused",
                                       requiredW, requiredH),
                       2 * ringN + cornerN + 3 * interiorN)
      ring(i) ==
        LET dist == Div(R * 50, 100) + Div(Div(R * (u[2 * i + 1] - 32768), 65536) * noiseAmp, 1000)
            pr == Clamp(Vary(IF isChild THEN Div(puffRadiusBase * 12, 10) ELSE puffRadiusBase,
                             u[2 * i + 2], 70, 60), puffRadiusMin, puffRadiusMax)
        IN Polar(Div(i * 360, ringN), dist,
                 IF isChild THEN Max2(puffRadiusMin, Min2(pr, R - dist + pr \div 2)) ELSE pr)
      corner(k) ==
        LET cornerDist == Div(Div(R * 50, 100) * 707, 1000)
        IN Puff(IF k \in {0, 3} THEN cornerDist ELSE -cornerDist,
                IF k \in {0, 1} THEN cornerDist ELSE -cornerDist,
                Clamp(Vary(puffRadiusBase, u[2 * ringN + k + 1], 85, 30), puffRadiusMin, puffRadiusMax))
      interior(j) ==
        LET o == 2 * ringN + cornerN + 3 * j
            interiorDist == Div(Div(R * ISqrt(u[o + 2]), 256) * (IF isChild THEN 50 ELSE 55), 100)
        IN Polar(Div(u[o + 1] * 360, 65536), interiorDist,
                 Clamp(Vary(puffRadiusBase, u[o + 3], 60, 80), puffRadiusMin, puffRadiusMax))
  IN <<Puff(0, 0, centerR)>> \o [i \in 1..ringN |-> ring(i - 1)]
       \o [k \in 1..cornerN |-> corner(k - 1)] \o [j \in 1..interiorN |-> interior(j - 1)]

SeededMorphPuffs(c, nodeId, requiredW, requiredH) ==
  [c EXCEPT !.coverageR = Max2(requiredW \div 2 + 25 * Scale, requiredH \div 2 + 25 * Scale),
            !.hitArea = [rx |-> requiredW \div 2 + 25 * Scale, ry |-> requiredH \div 2 + 25 * Scale],
            !.targetPuffs = SeededTarget(c, nodeId, requiredW, requiredH),
            !.morphComplete = FALSE]

MaxSynthCalls == 3
MaxSynthTicks == 1

\* required sizes handed to computeMorphPuffs, in pixels
SynthSizes == { [w |-> 170, h |-> 90], [w |-> 280, h |-> 184] }

InitSynth ==
  /\ Unmounted
  /\ lastOp = "module"
  /\ limits = [commits |-> MaxSynthCalls, ticks |-> MaxSynthTicks, pointerEvents |-> 0]
  /\ undoActions = <<>>
  /\ db = NoDb
  /\ app = NoApp
  /\ \E id \in {"M1", "T1", "S1"} :
       probe = [NoProbe EXCEPT !.synth =
                  [nodeId |-> id, cloud |-> NewCloud(Node(id, 0, 0, 40 * Scale), TRUE),
                   key |-> <<>>, first |-> [k \in {} |-> <<>>]]]

\* layoutFocusedContent / layoutChildContent reaching computeMorphPuffs on the
\* cloud as it is; the list of the first call with each input is kept
SynthCall(isChild, size) ==
  /\ commits < limits.commits
  /\ LET y == probe.synth
         key == <<isChild, size>>
         made == SeededMorphPuffs([y.cloud EXCEPT !.isChildOfFocusedNode = isChild,
                                                  !.isFocusedNode = ~isChild],
                                  y.nodeId, size.w * Scale, size.h * Scale)
     IN probe' = [probe EXCEPT !.synth =
                    [y EXCEPT !.cloud = made,
                              !.key = key,
                              !.first = [k \in DOMAIN y.first \cup {key} |->
                                           IF k \in DOMAIN y.first THEN y.first[k]
                                           ELSE made.targetPuffs]]]
  /\ commits' = commits + 1
  /\ lastOp' = "synth"
  /\ UNCHANGED <<canvasVars, inputVars, phase, preStep, ticks, pointerEvents, limits, undoActions, db, app>>

\* Cloud.update between two calls: the current puffs move and grow
SynthFrame(deltaTime) ==
  /\ ticks < limits.ticks
  /\ probe.synth.key # <<>>
  /\ probe' = [probe EXCEPT !.synth.cloud = update(@, deltaTime, TRUE)]
  /\ ticks' = ticks + 1
  /\ lastOp' = "tick"
  /\ UNCHANGED <<canvasVars, inputVars, phase, preStep, commits, pointerEvents, limits, undoActions, db, app>>

NextSynth ==
  \/ \E isChild \in BOOLEAN, size \in SynthSizes : SynthCall(isChild, size)
  \/ \E deltaTime \in DeltaTimes : SynthFrame(deltaTime)

SpecSynth == InitSynth /\ [][NextSynth]_vars

\* C26: for a fixed node id, mode, required width and required height the
\* synthesizer produces the same target puff list on every call: the list of
\* the latest call is the list the first call with those inputs produced
C26_SameInputsSameTarget ==
  probe.synth.key # <<>> =>
    probe.synth.cloud.targetPuffs = probe.synth.first[probe.synth.key]

\* the third call repeats the inputs of the first, after another call and a
\* frame in between, and produces a list of seeded ring and interior puffs
C26_Witness ==
  /\ lastOp = "synth"
  /\ commits = 3
  /\ ticks = 1
  /\ Cardinality(DOMAIN probe.synth.first) = 2
  /\ Len(probe.synth.cloud.targetPuffs) >= 10
  /\ probe.synth.cloud.targetPuffs = probe.synth.first[probe.synth.key]
  /\ \E i, j \in 2..Len(probe.synth.cloud.targetPuffs) :
       probe.synth.cloud.targetPuffs[i].r # probe.synth.cloud.targetPuffs[j].r

\* ------------------------------------------------------------------------
\* The release velocity of a drag to the right
\* ------------------------------------------------------------------------
\* C27: when a drag starts at x0 and every update that follows has an x
\* strictly greater than the one before (at least one update being made),
\* ending the drag reports a release velocity whose vx is strictly positive
C27_RightwardDragReleasesRightward ==
  (/\ lastOp = "end"
   /\ probe.dragBefore.nodeId # None
   /\ probe.history.updates >= 1
   /\ probe.history.rising)
  => probe.released.vx > 0

\* a drag of two updates, each further to the right, then released
C27_Witness ==
  /\ lastOp = "end"
  /\ probe.dragBefore.nodeId # None
  /\ probe.history.updates = 2
  /\ probe.history.rising
  /\ probe.released.vx > 0

\* ------------------------------------------------------------------------
\* undoService.ts: the undo / redo stacks kept in the UndoAction table.
\* undoActions lists the rows in createdAt order; ids are handed out in the
\* order of creation. Requests are served one at a time.
\* ------------------------------------------------------------------------
MAX_UNDO_STACK == 5

MaxUndoOps == 9

\* where: { isUndone: false } / { isUndone: true }, orderBy createdAt asc
NonUndone(t) == SelectSeq(t, LAMBDA a : ~a.isUndone)

Undone(t) == SelectSeq(t, LAMBDA a : a.isUndone)

RowIds(t) == {t[i].id : i \in 1..Len(t)}

\* (mutation) enforceStackLimit deleting the newest rows over the limit
enforceStackLimitNewest(t) ==
  LET live == NonUndone(t)
      count == Len(live)
  IN IF count > MAX_UNDO_STACK
     THEN LET toDelete == {live[i].id : i \in (MAX_UNDO_STACK + 1)..count}
          IN SelectSeq(t, LAMBDA a : a.id \notin toDelete)
     ELSE t

enforceStackLimit(t) ==
  LET live == NonUndone(t)
      count == Len(live)
  IN IF count > MAX_UNDO_STACK
     THEN LET toDelete == {live[i].id : i \in 1..(count - MAX_UNDO_STACK)}
          IN SelectSeq(t, LAMBDA a : a.id \notin toDelete)
     ELSE t

\* (mutation) pushUndoAction without its deleteMany of the undone rows
pushUndoActionKeepingRedo(t, id) ==
  enforceStackLimit(Append(t, [id |-> id, isUndone |-> FALSE]))

pushUndoAction(t, id) ==
  enforceStackLimit(Append(NonUndone(t), [id |-> id, isUndone |-> FALSE]))

\* executeUndo's findFirst: the newest row that is not undone, 0 for null
FindUndo(t) ==
  LET live == {i \in 1..Len(t) : ~t[i].isUndone}
  IN IF live = {} THEN 0 ELSE CHOOSE i \in live : \A j \in live : j <= i

\* (mutation) executeRedo ordering by createdAt desc
FindRedoNewest(t) ==
  LET undone == {i \in 1..Len(t) : t[i].isUndone}
  IN IF undone = {} THEN 0 ELSE CHOOSE i \in undone : \A j \in undone : j <= i

\* executeRedo's findFirst: the oldest row that is undone, 0 for null
FindRedo(t) ==
  LET undone == {i \in 1..Len(t) : t[i].isUndone}
  IN IF undone = {} THEN 0 ELSE CHOOSE i \in undone : \A j \in undone : i <= j

\* what the requests so far did: rows created, rows the last push discarded
\* over the limit, the rows undone and not redone since (latest last), the
\* current run of consecutive undos and the redos that followed it
NoUndoTrace ==
  [pushed |-> 0, redoBefore |-> 0, discarded |-> {}, undoneStack |-> <<>>,
   undos |-> <<>>, redos |-> <<>>, redone |-> 0, mostRecent |-> 0]

InitUndo ==
  /\ Unmounted
  /\ lastOp = "module"
  /\ limits = [commits |-> MaxUndoOps, ticks |-> 0, pointerEvents |-> 0]
  /\ undoActions = <<>>
  /\ db = NoDb
  /\ app = NoApp
  /\ probe = [NoProbe EXCEPT !.undo = NoUndoTrace]

UndoRequest(op, table, trace) ==
  /\ commits < limits.commits
  /\ undoActions' = table
  /\ probe' = [probe EXCEPT !.undo = trace]
  /\ commits' = commits + 1
  /\ lastOp' = op
  /\ UNCHANGED <<canvasVars, inputVars, phase, preStep, ticks, pointerEvents, limits, db, app>>

\* an entity operation of entityService.ts completing with pushUndoAction
EntityOperation ==
  LET id == probe.undo.pushed + 1
      table == pushUndoAction(undoActions, id)
  IN UndoRequest("push", table,
       [NoUndoTrace EXCEPT !.pushed = id,
                           !.redoBefore = Len(Undone(undoActions)),
                           !.discarded = (RowIds(NonUndone(undoActions)) \cup {id}) \ RowIds(table)])

\* POST /undo; ok tells whether reverseAction returned without throwing
ExecuteUndo(ok) ==
  LET i == FindUndo(undoActions)
      y == probe.undo
  IN IF i = 0 \/ ~ok THEN UndoRequest("undo-none", undoActions, y)
     ELSE UndoRequest("undo", [undoActions EXCEPT ![i].isUndone = TRUE],
            [y EXCEPT !.undoneStack = Append(@, undoActions[i].id),
                      !.undos = IF y.redos = <<>> THEN Append(@, undoActions[i].id)
                                ELSE <<undoActions[i].id>>,
                      !.redos = <<>>])

\* POST /undo/redo; ok tells whether replayAction returned without throwing
ExecuteRedo(ok) ==
  LET i == FindRedo(undoActions)
      y == probe.undo
  IN IF i = 0 \/ ~ok THEN UndoRequest("redo-none", undoActions, y)
     ELSE UndoRequest("redo", [undoActions EXCEPT ![i].isUndone = FALSE],
            [y EXCEPT !.undoneStack = SelectSeq(@, LAMBDA a : a # undoActions[i].id),
                      !.redos = Append(@, undoActions[i].id),
                      !.redone = undoActions[i].id,
                      !.mostRecent = y.undoneStack[Len(y.undoneStack)]])

\* DELETE /undo/clear
ClearUndoStack ==
  UndoRequest("clear", <<>>, [NoUndoTrace EXCEPT !.pushed = probe.undo.pushed])

NextUndo ==
  \/ EntityOperation
  \/ \E ok \in BOOLEAN : ExecuteUndo(ok)
  \/ \E ok \in BOOLEAN : ExecuteRedo(ok)
  \/ ClearUndoStack

SpecUndo == InitUndo /\ [][NextUndo]_vars

\* C28: recording a new undoable action clears the redo stack: once an entity
\* operation that pushes an undo action has completed no stored action is
\* marked undone, and a redo request finds nothing
C28_PushClearsRedoStack ==
  lastOp = "push" =>
    /\ \A i \in 1..Len(undoActions) : ~undoActions[i].isUndone
    /\ FindRedo(undoActions) = 0

\* an operation is recorded while two undone actions wait to be redone
C28_Witness ==
  /\ lastOp = "push"
  /\ probe.undo.redoBefore = 2
  /\ Undone(undoActions) = <<>>
  /\ Len(undoActions) >= 2

\* C29: after any sequence of entity operations, undos and redos the number of
\* stored actions that are not undone is at most MAX_UNDO_STACK, and the
\* actions a push discards over the limit are older than every action kept
C29_StackHoldsNewestFive ==
  /\ Len(NonUndone(undoActions)) <= MAX_UNDO_STACK
  /\ lastOp = "push" =>
       \A d \in probe.undo.discarded : \A i \in 1..Len(undoActions) : d < undoActions[i].id

\* the sixth operation in a row discards the oldest action and five are kept
C29_Witness ==
  /\ lastOp = "push"
  /\ probe.undo.discarded # {}
  /\ Len(NonUndone(undoActions)) = MAX_UNDO_STACK
  /\ \A d \in probe.undo.discarded : \A i \in 1..Len(undoActions) : d < undoActions[i].id

\* C30: executeRedo re-applies the action that was undone most recently, so
\* the redos that follow a run of consecutive undos replay its actions in the
\* reverse order of their undos
C30_RedoReplaysLatestUndoFirst ==
  /\ lastOp = "redo" => probe.undo.redone = probe.undo.mostRecent
  /\ \A k \in 1..Len(probe.undo.redos) :
       k <= Len(probe.undo.undos) =>
         probe.undo.redos[k] = probe.undo.undos[Len(probe.undo.undos) + 1 - k]

\* three consecutive undos followed by three consecutive redos
C30_Witness ==
  /\ lastOp = "redo"
  /\ Len(probe.undo.undos) = 3
  /\ Len(probe.undo.redos) = 3
  /\ probe.undo.redos[1] = probe.undo.undos[3]
  /\ probe.undo.redos[3] = probe.undo.undos[1]
  /\ probe.undo.redos[1] # probe.undo.redos[3]

\* ------------------------------------------------------------------------
\* Stale animation-frame callbacks of refreshFocusLayout
\* ------------------------------------------------------------------------
\* C31: a callback of refreshFocusLayout that runs after the focus has changed
\* since it was scheduled (to another node or to no focus) is stale: it writes
\* neither a node position nor the Focus Layout Map. The callback was scheduled
\* for the node it holds as parentNode, the node focused at that time.
C31_StaleCallbackWritesNothing ==
  [][(phase = "raf" /\ rafQueue # <<>> /\ lastOp' = "raf" /\ Head(rafQueue).parentNode.id # focus)
       => (layoutMap' = layoutMap /\ Positions(nodes') = Positions(nodes))]_vars

\* ------------------------------------------------------------------------
\* A focus session: drags, drops and refreshes while one node stays focused
\* ------------------------------------------------------------------------
MaxSessionCommits == 1
MaxSessionTicks == 3
MaxSessionPointerEvents == 2

\* the canvas once the sky has loaded, the node has been focused and the
\* callbacks of the focus entry have run
InitSession ==
  /\ sky \in SkySets
  /\ stored \in StoredSets
  /\ focus \in {"M1", "T1"}
  /\ prevFocusedId = focus
  /\ \E loaded \in {SkyEffect(MountedCanvas, sky, stored, None, None, [t \in Tasks |-> 10])} :
       \E entered \in {FocusEffect(loaded, focus, None)} :
         \E queued \in {SkyEffect(entered, sky, stored, focus, focus, [t \in Tasks |-> 0])} :
           \E cv \in {RunAll(queued)} :
             /\ nodes = cv.nodes
             /\ clouds = cv.clouds
             /\ layoutMap = cv.layoutMap
             /\ focusToken = cv.focusToken
             /\ rafQueue = cv.rafQueue
  /\ dragState = NoDrag
  /\ draggedCloud = NoCloud
  /\ longPressTimer = FALSE
  /\ longPressTriggered = FALSE
  /\ pointers = 0
  /\ touchStartPending = FALSE
  /\ phase = "idle"
  /\ lastOp = "raf"
  /\ preStep = <<>>
  /\ ticks = 0
  /\ commits = 0
  /\ pointerEvents = 0
  /\ limits = [commits |-> MaxSessionCommits, ticks |-> MaxSessionTicks,
               pointerEvents |-> MaxSessionPointerEvents]
  /\ undoActions = <<>>
  /\ db = NoDb
  /\ app = NoApp
  /\ probe = NoProbe

NextSession ==
  \/ \E rnd \in RndFor(sky, nodes) : SkyDataChange(sky, stored, rnd)
  \/ RefreshFocusLayout
  \/ \E deltaTime \in {1}, jit \in JitterDraws, spawnOver \in SpawnDraws(clouds) :
       Tick(deltaTime, jit, spawnOver)
  \/ RunRaf
  \/ \E c \in {"T1", "S1"} : CloudPointerDown(c)
  \/ \E p \in DragTargets : PointerMove(p)
  \/ PointerUp

SpecSession == InitSession /\ [][NextSession]_vars

\* C32: while the same node stays focused, the position the Focus Layout Map
\* holds for a child (a position where the user dropped it included) is not
\* changed by a data refresh or a layout refresh: neither the sky data effect,
\* nor refreshFocusLayout, nor the animation-frame callback they queue changes
\* the entry of a child that is in the map before and after. The layout of the
\* session is in place once the map holds the focused node itself.
C32_ChildPositionsPersistInSession ==
  [][(focus # None /\ focus' = focus /\ focus \in DOMAIN layoutMap
        /\ lastOp' \in {"data", "refresh", "raf"})
       => \A k \in (DOMAIN layoutMap \cap DOMAIN layoutMap') \ {focus} :
            layoutMap'[k] = layoutMap[k]]_vars

\* ------------------------------------------------------------------------
\* entityService.ts: reorderTask and reorderSubtask.
\* db.tasks and db.subtasks list the rows in createdAt order.
\* ------------------------------------------------------------------------
MaxReorders == 1

\* orderBy: [{ order: 'asc' }, { createdAt: 'asc' }] over rows in createdAt order
OrderedRows(rows) ==
  LET Rank(i) == Cardinality({j \in 1..Len(rows) :
                    \/ rows[j].order < rows[i].order
                    \/ (rows[j].order = rows[i].order /\ j < i)}) + 1
  IN [k \in 1..Len(rows) |-> rows[CHOOSE i \in 1..Len(rows) : Rank(i) = k]]

\* filter, findIndex and splice(insertIndex, 0, dragged): findIndex gives -1 for
\* a target that is not in the filtered list, and splice counts a negative
\* start from the end of the array
Spliced(ordered, dragged, targetId, position) ==
  LET reordered == SelectSeq(ordered, LAMBDA r : r.id # dragged.id)
      hits == {i \in 1..Len(reordered) : reordered[i].id = targetId}
      targetIndex == IF hits = {} THEN -1 ELSE (CHOOSE i \in hits : \A j \in hits : i <= j) - 1
      insertIndex == IF position = "before" THEN targetIndex ELSE targetIndex + 1
      start == IF insertIndex < 0 THEN Max2(Len(reordered) + insertIndex, 0)
               ELSE Min2(insertIndex, Len(reordered))
  IN SubSeq(reordered, 1, start) \o <<dragged>> \o SubSeq(reordered, start + 1, Len(reordered))

\* the update loop: order = i for the row with the id of reordered[i]
WithOrders(t, reordered) ==
  [k \in 1..Len(t) |->
     LET hits == {i \in 1..Len(reordered) : reordered[i].id = t[k].id}
     IN IF hits = {} THEN t[k] ELSE [t[k] EXCEPT !.order = (CHOOSE i \in hits : TRUE) - 1]]

RowOf(t, id) == t[CHOOSE i \in 1..Len(t) : t[i].id = id]

reorderTask(t, taskId, targetTaskId, position) ==
  LET draggedTask == RowOf(t, taskId)
      targetTask == RowOf(t, targetTaskId)
      tasks == OrderedRows(SelectSeq(t, LAMBDA r : r.milestoneId = targetTask.milestoneId))
  IN WithOrders(t, Spliced(tasks, draggedTask, targetTaskId, position))

reorderSubtask(t, subtaskId, targetSubtaskId, position) ==
  LET draggedSubtask == RowOf(t, subtaskId)
      targetSubtask == RowOf(t, targetSubtaskId)
      subtasks == OrderedRows(SelectSeq(t, LAMBDA r : r.taskId = targetSubtask.taskId))
  IN WithOrders(t, Spliced(subtasks, draggedSubtask, targetSubtaskId, position))

RowNames == <<"a", "b", "c", "d">>

\* four rows of one table, created in the order a, b, c, d
InitReorder ==
  /\ Unmounted
  /\ lastOp = "module"
  /\ limits = [commits |-> MaxReorders, ticks |-> 0, pointerEvents |-> 0]
  /\ undoActions = <<>>
  /\ app = NoApp
  /\ \E parent \in [1..4 -> {1, 2}], order \in [1..4 -> {0, 1}] :
       \/ db = [tasks |-> [i \in 1..4 |-> [id |-> RowNames[i], order |-> order[i], completed |-> FALSE,
                                         milestoneId |-> IF parent[i] = 1 THEN "M1" ELSE "M2"]],
                subtasks |-> <<>>]
       \/ db = [tasks |-> <<>>,
                subtasks |-> [i \in 1..4 |-> [id |-> RowNames[i], order |-> order[i], completed |-> FALSE,
                                            taskId |-> IF parent[i] = 1 THEN "T1" ELSE "T2"]]]
  /\ probe = NoProbe

\* the request completes: the table is updated and the undo action is pushed
Reordered(op, tables, id, targetId, position) ==
  /\ commits < limits.commits
  /\ db' = tables
  /\ undoActions' = pushUndoAction(undoActions, Len(undoActions) + 1)
  /\ probe' = [probe EXCEPT !.reorder = [before |-> db, id |-> id, targetId |-> targetId,
                                         position |-> position]]
  /\ commits' = commits + 1
  /\ lastOp' = op
  /\ UNCHANGED <<canvasVars, inputVars, phase, preStep, ticks, pointerEvents, limits, app>>

\* POST /tasks/reorder
ReorderTask(taskId, targetTaskId, position) ==
  /\ db.tasks # <<>>
  /\ Reordered("reorderTask", [db EXCEPT !.tasks = reorderTask(@, taskId, targetTaskId, position)],
               taskId, targetTaskId, position)

\* POST /subtasks/reorder
ReorderSubtask(subtaskId, targetSubtaskId, position) ==
  /\ db.subtasks # <<>>
  /\ Reordered("reorderSubtask",
               [db EXCEPT !.subtasks = reorderSubtask(@, subtaskId, targetSubtaskId, position)],
               subtaskId, targetSubtaskId, position)

NextReorder ==
  \/ \E id \in {"a", "b", "c", "d"}, targetId \in {"a", "b", "c", "d"}, position \in {"before", "after"} :
       ReorderTask(id, targetId, position)
  \/ \E id \in {"a", "b", "c", "d"}, targetId \in {"a", "b", "c", "d"}, position \in {"before", "after"} :
       ReorderSubtask(id, targetId, position)

SpecReorder == InitReorder /\ [][NextReorder]_vars

\* the ids of the rows under the parent of the target, in display order
SiblingIds(tables, targetId) ==
  LET rows == tables.tasks \o tables.subtasks
      ParentOfRow(r) == IF tables.tasks # <<>> THEN r.milestoneId ELSE r.taskId
      ordered == OrderedRows(SelectSeq(rows, LAMBDA r : ParentOfRow(r) = ParentOfRow(RowOf(rows, targetId))))
  IN [i \in 1..Len(ordered) |-> ordered[i].id]

Without(ids, id) == SelectSeq(ids, LAMBDA x : x # id)

IndexIn(ids, id) == IF \E i \in 1..Len(ids) : ids[i] = id THEN CHOOSE i \in 1..Len(ids) : ids[i] = id ELSE 0

\* C33: after reorderTask or reorderSubtask, among the rows of the target's
\* parent in display order the dragged row stands immediately before (position
\* 'before') or immediately after (position 'after') the target, and every
\* other sibling keeps its previous relative order; a row dropped on itself
\* stays where it is, and a row of another parent is placed as well.
C33_DraggedLandsNextToTarget ==
  lastOp \in {"reorderTask", "reorderSubtask"} =>
    LET r == probe.reorder
        before == SiblingIds(r.before, r.targetId)
        after == SiblingIds(db, r.targetId)
    IN /\ Without(after, r.id) = Without(before, r.id)
       /\ IF r.id = r.targetId THEN after = before
          ELSE /\ IndexIn(after, r.id) # 0
               /\ IndexIn(after, r.id) =
                    IndexIn(after, r.targetId) + (IF r.position = "before" THEN -1 ELSE 1)

\* ------------------------------------------------------------------------
\* useSkyData.ts: refresh and the completions of getSky.
\* app.requests[k] is the state of the k-th getSky call: "inflight", "aborted"
\* (its signal was aborted and its promise has not rejected yet) or "settled";
\* app.data is the number of the call whose result setData received, 0 for null
\* ------------------------------------------------------------------------
MaxSkyRequests == 4

\* useState(null), useState(true), useState(null), useRef(null)
SkyHook == [data |-> 0, loading |-> TRUE, error |-> FALSE, requests |-> <<>>]

\* (mutation) refresh without the abort of the request in flight
refreshKeepingInFlight(h) ==
  [h EXCEPT !.requests = Append(@, "inflight"), !.loading = TRUE]

\* refresh() up to its await: abort on the controller of the previous call, a
\* new controller, setLoading(true), getSky(signal)
refresh(h) ==
  LET n == Len(h.requests)
      aborted == IF n > 0 /\ h.requests[n] = "inflight"
                 THEN [h.requests EXCEPT ![n] = "aborted"] ELSE h.requests
  IN [h EXCEPT !.requests = Append(aborted, "inflight"), !.loading = TRUE]

\* the rest of refresh() once getSky has resolved: setData, setError(null),
\* and the finally block
resolved(h, k) ==
  [h EXCEPT !.requests[k] = "settled", !.data = k, !.error = FALSE, !.loading = FALSE]

\* the rest of refresh() once getSky has rejected: nothing but the finally
\* block for an AbortError, setError and the finally block otherwise
rejected(h, k, isAbort) ==
  [h EXCEPT !.requests[k] = "settled", !.error = IF isAbort THEN @ ELSE TRUE, !.loading = FALSE]

InitSky ==
  /\ Unmounted
  /\ lastOp = "module"
  /\ limits = [commits |-> MaxSkyRequests, ticks |-> 0, pointerEvents |-> 0]
  /\ undoActions = <<>>
  /\ db = NoDb
  /\ app = SkyHook
  /\ probe = NoProbe

SkyStep(op, h) ==
  /\ app' = h
  /\ lastOp' = op
  /\ UNCHANGED <<canvasVars, inputVars, phase, preStep, ticks, pointerEvents, limits,
                 undoActions, db, probe>>

\* refresh() is called: by the mount effect, by a handler, or by a poll
Refresh ==
  /\ commits < limits.commits
  /\ commits' = commits + 1
  /\ SkyStep("refresh", refresh(app))

\* the response of request k arrives and parses: the continuations of request,
\* getSky and refresh run as microtasks of the task that delivers the body,
\* before any other task can call refresh; a request whose signal was aborted
\* rejects instead
SkyResolved(k) ==
  /\ app.requests[k] = "inflight"
  /\ UNCHANGED commits
  /\ SkyStep("resolved", resolved(app, k))

\* request k fails: with an AbortError once its signal is aborted, with
\* another error (network, status, schema) while it is not
SkyRejected(k) ==
  /\ app.requests[k] \in {"inflight", "aborted"}
  /\ UNCHANGED commits
  /\ SkyStep(IF app.requests[k] = "aborted" THEN "aborted" ELSE "failed",
             rejected(app, k, app.requests[k] = "aborted"))

NextSky ==
  \/ Refresh
  \/ \E k \in 1..Len(app.requests) : SkyResolved(k)
  \/ \E k \in 1..Len(app.requests) : SkyRejected(k)

SpecSky == InitSky /\ [][NextSky]_vars

\* C34: the data exposed by useSkyData is never overwritten by the result of a
\* superseded refresh: whenever a result is applied it is the result of the
\* refresh issued last, whatever the order of refresh calls, completions and
\* aborts.
C34_OnlyLatestRefreshApplies ==
  [][app'.data # app.data => app'.data = Len(app.requests)]_vars

\* a refresh was superseded while in flight, its abort has been delivered, and
\* the result of the refresh issued last has been applied
C34_Witness ==
  /\ lastOp = "resolved"
  /\ Len(app.requests) >= 3
  /\ app.data = Len(app.requests)
  /\ \A k \in 1..Len(app.requests) : app.requests[k] = "settled"

\* C40: loading is true whenever the refresh issued last has not completed,
\* also while it is in flight after having aborted an earlier refresh.
C40_LoadingWhileLatestInFlight ==
  (app.requests # <<>> /\ app.requests[Len(app.requests)] = "inflight") => app.loading

\* ------------------------------------------------------------------------
\* The three records of the running drag
\* ------------------------------------------------------------------------
\* C35: at every moment the physics drag target (dragState.nodeId), the cloud
\* held by draggedCloudRef and the set of clouds whose dragging flag is set
\* agree: either all three are empty, or exactly one cloud is marked dragging
\* and both references name it, under any interleaving of pointer, touch and
\* long-press timer events and node-graph rebuilds.
C35_DragRecordsAgree ==
  LET marked == {id \in DOMAIN clouds : clouds[id].dragging}
  IN \/ (marked = {} /\ dragState.nodeId = None /\ draggedCloud = NoCloud)
     \/ \E id \in DOMAIN clouds :
          marked = {id} /\ dragState.nodeId = id /\ draggedCloud.id = id

\* ------------------------------------------------------------------------
\* The hit-test boundary of a cloud
\* ------------------------------------------------------------------------
\* C36: the enlarged elliptical hit-test boundary applies to a node only while
\* it is focused or a child of the focused node: a cloud that is neither (the
\* focus was left or moved elsewhere) is hit-tested by its resting shape, as a
\* cloud that was never focused is.
C36_RestingHitAreaOutsideFocus ==
  \A id \in DOMAIN clouds :
    (~clouds[id].isFocusedNode /\ ~clouds[id].isChildOfFocusedNode) =>
      clouds[id].hitArea = NoHitArea

\* ------------------------------------------------------------------------
\* Undo and redo requests that overlap: useUndoStack.ts and App.tsx in front,
\* executeUndo / executeRedo behind, each request advancing from one await to
\* the next. app.loading is the state of useUndoStack, app.rendered the value
\* of loading in the closures of the last render, app.requests the requests
\* sent so far, app.reversed[id] how often the action id was reversed since it
\* was last replayed (or recorded).
\* ------------------------------------------------------------------------
MaxUndoRequests == 3

RecordedActions == 2

InitRace ==
  /\ Unmounted
  /\ lastOp = "module"
  /\ limits = [commits |-> MaxUndoRequests, ticks |-> 0, pointerEvents |-> 0]
  /\ undoActions = [i \in 1..RecordedActions |-> [id |-> i, isUndone |-> FALSE]]
  /\ db = NoDb
  /\ app = [loading |-> FALSE, rendered |-> FALSE, requests |-> <<>>,
            reversed |-> [i \in 1..RecordedActions |-> 0]]
  /\ probe = NoProbe

RaceStep(op, table, a) ==
  /\ undoActions' = table
  /\ app' = a
  /\ lastOp' = op
  /\ UNCHANGED <<canvasVars, inputVars, phase, preStep, ticks, pointerEvents, limits, db, probe>>

\* handleUndo / handleRedo and undo() / redo() up to the await: the guards read
\* the loading of the render the handler was created in; setLoading(true), then
\* POST /undo or POST /undo/redo
HandleUndoRedo(kind) ==
  /\ commits < limits.commits
  /\ ~app.rendered
  /\ commits' = commits + 1
  /\ RaceStep(kind, undoActions,
              [app EXCEPT !.loading = TRUE,
                          !.requests = Append(@, [kind |-> kind, at |-> "findFirst", action |-> 0])])

\* React renders: handlers and effects are created anew with the current state
Render ==
  /\ app.rendered # app.loading
  /\ UNCHANGED commits
  /\ RaceStep("render", undoActions, [app EXCEPT !.rendered = app.loading])

\* await prisma.undoAction.findFirst(...) of executeUndo / executeRedo
FindFirst(r) ==
  /\ app.requests[r].at = "findFirst"
  /\ UNCHANGED commits
  /\ LET i == IF app.requests[r].kind = "undo" THEN FindUndo(undoActions) ELSE FindRedo(undoActions)
     IN RaceStep("findFirst", undoActions,
                 [app EXCEPT !.requests[r] = IF i = 0 THEN [@ EXCEPT !.at = "respond"]
                                             ELSE [@ EXCEPT !.at = "reverse", !.action = undoActions[i].id]])

\* await reverseAction(action) / await replayAction(action)
ReverseOrReplay(r) ==
  /\ app.requests[r].at = "reverse"
  /\ UNCHANGED commits
  /\ RaceStep(IF app.requests[r].kind = "undo" THEN "reverseAction" ELSE "replayAction", undoActions,
              [app EXCEPT !.requests[r].at = "update",
                          !.reversed[app.requests[r].action] =
                             IF app.requests[r].kind = "undo" THEN @ + 1 ELSE 0])

\* await prisma.undoAction.update({ where: { id }, data: { isUndone } })
MarkUndone(r) ==
  /\ app.requests[r].at = "update"
  /\ UNCHANGED commits
  /\ RaceStep("update",
              [i \in 1..Len(undoActions) |->
                 IF undoActions[i].id = app.requests[r].action
                 THEN [undoActions[i] EXCEPT !.isUndone = (app.requests[r].kind = "undo")]
                 ELSE undoActions[i]],
              [app EXCEPT !.requests[r].at = "respond"])

\* the response arrives: the rest of undo() / redo() with its finally block
Respond(r) ==
  /\ app.requests[r].at = "respond"
  /\ UNCHANGED commits
  /\ RaceStep("respond", undoActions,
              [app EXCEPT !.requests[r].at = "done", !.loading = FALSE])

NextRace ==
  \/ \E kind \in {"undo", "redo"} : HandleUndoRedo(kind)
  \/ Render
  \/ \E r \in 1..Len(app.requests) : FindFirst(r)
  \/ \E r \in 1..Len(app.requests) : ReverseOrReplay(r)
  \/ \E r \in 1..Len(app.requests) : MarkUndone(r)
  \/ \E r \in 1..Len(app.requests) : Respond(r)

SpecRace == InitRace /\ [][NextRace]_vars

\* C37: no recorded action is reversed twice without a redo of it in between,
\* also when a second undo request is issued before the first has completed.
C37_NoDoubleReversal ==
  \A id \in DOMAIN app.reversed : app.reversed[id] <= 1

\* ------------------------------------------------------------------------
\* entityService.ts: completing and uncompleting subtasks, and their undo.
\* A store is the pair of the entity tables and the UndoAction table.
\* ------------------------------------------------------------------------
MaxCompletionOps == 3

\* pushUndoAction with the fields of the action that reverseAction reads
Recorded(t, actionType, entityType, entityId) ==
  LET ids == {t[i].id : i \in 1..Len(t)}
      next == IF ids = {} THEN 1 ELSE 1 + CHOOSE n \in ids : \A k \in ids : k <= n
  IN enforceStackLimit(Append(NonUndone(t),
       [id |-> next, isUndone |-> FALSE, actionType |-> actionType,
        entityType |-> entityType, entityId |-> entityId]))

\* prisma.<table>.update({ where: { id }, data: { completed } })
SetCompleted(rows, id, completed) ==
  [i \in 1..Len(rows) |-> IF rows[i].id = id THEN [rows[i] EXCEPT !.completed = completed]
                          ELSE rows[i]]

completeTask(s, id) ==
  [db |-> [s.db EXCEPT !.tasks = SetCompleted(@, id, TRUE)],
   undo |-> Recorded(s.undo, "complete", "task", id)]

uncompleteTask(s, id) ==
  [db |-> [s.db EXCEPT !.tasks = SetCompleted(@, id, FALSE)],
   undo |-> Recorded(s.undo, "uncomplete", "task", id)]

completeSubtask(s, id) ==
  LET before == RowOf(s.db.subtasks, id)
      updated == [db |-> [s.db EXCEPT !.subtasks = SetCompleted(@, id, TRUE)],
                  undo |-> Recorded(s.undo, "complete", "subtask", id)]
      parentTask == RowOf(updated.db.tasks, before.taskId)
      subtasks == SelectSeq(updated.db.subtasks, LAMBDA r : r.taskId = parentTask.id)
  IN IF Len(subtasks) > 0 /\ (\A i \in 1..Len(subtasks) : subtasks[i].completed)
        /\ ~parentTask.completed
     THEN completeTask(updated, parentTask.id)
     ELSE updated

uncompleteSubtask(s, id) ==
  LET before == RowOf(s.db.subtasks, id)
      updated == [db |-> [s.db EXCEPT !.subtasks = SetCompleted(@, id, FALSE)],
                  undo |-> Recorded(s.undo, "uncomplete", "subtask", id)]
      parentTask == RowOf(updated.db.tasks, before.taskId)
  IN IF parentTask.completed THEN uncompleteTask(updated, parentTask.id) ELSE updated

\* reverseAction for 'complete' (uncompleteEntityDirect) and 'uncomplete'
\* (completeEntityDirect)
reverseAction(tables, action) ==
  IF action.entityType = "task"
  THEN [tables EXCEPT !.tasks = SetCompleted(@, action.entityId, action.actionType = "uncomplete")]
  ELSE [tables EXCEPT !.subtasks = SetCompleted(@, action.entityId, action.actionType = "uncomplete")]

executeUndo(s) ==
  LET i == FindUndo(s.undo)
  IN IF i = 0 THEN s
     ELSE [db |-> reverseAction(s.db, s.undo[i]), undo |-> [s.undo EXCEPT ![i].isUndone = TRUE]]

Store == [db |-> db, undo |-> undoActions]

\* task T1 of milestone M1 with its subtasks S1 and S2, in any state of completion
InitCompletion ==
  /\ Unmounted
  /\ lastOp = "module"
  /\ limits = [commits |-> MaxCompletionOps, ticks |-> 0, pointerEvents |-> 0]
  /\ undoActions = <<>>
  /\ app = NoApp
  /\ \E t \in BOOLEAN, s1 \in BOOLEAN, s2 \in BOOLEAN :
       db = [tasks |-> <<[id |-> "T1", order |-> 0, completed |-> t, milestoneId |-> "M1"]>>,
             subtasks |-> <<[id |-> "S1", order |-> 0, completed |-> s1, taskId |-> "T1"],
                            [id |-> "S2", order |-> 0, completed |-> s2, taskId |-> "T1"]>>]
  /\ probe = NoProbe

\* a request is served: the store it leaves, and what is kept of the subtask
\* operation it was or that it undoes
Served(op, s, kept) ==
  /\ commits < limits.commits
  /\ db' = s.db
  /\ undoActions' = s.undo
  /\ probe' = [probe EXCEPT !.completion = kept]
  /\ commits' = commits + 1
  /\ lastOp' = op
  /\ UNCHANGED <<canvasVars, inputVars, phase, preStep, ticks, pointerEvents, limits, app>>

\* POST /subtasks/:id/complete
CompleteSubtask(id) ==
  Served("completeSubtask", completeSubtask(Store, id), [before |-> db, id |-> id, undone |-> FALSE])

\* POST /subtasks/:id/uncomplete
UncompleteSubtask(id) ==
  Served("uncompleteSubtask", uncompleteSubtask(Store, id), [before |-> db, id |-> id, undone |-> FALSE])

\* POST /tasks/:id/complete
CompleteTask(id) == Served("completeTask", completeTask(Store, id), <<>>)

\* POST /undo
UndoRequested ==
  Served("executeUndo", executeUndo(Store),
         IF lastOp \in {"completeSubtask", "uncompleteSubtask"}
         THEN [probe.completion EXCEPT !.undone = TRUE] ELSE <<>>)

NextCompletion ==
  \/ \E id \in {"S1", "S2"} : CompleteSubtask(id)
  \/ \E id \in {"S1", "S2"} : UncompleteSubtask(id)
  \/ CompleteTask("T1")
  \/ UndoRequested

SpecCompletion == InitCompletion /\ [][NextCompletion]_vars

\* C38: one undo reverts one user operation: a single executeUndo after
\* completeSubtask or uncompleteSubtask, the parent task completed or
\* uncompleted along with the subtask included, leaves the completion flags
\* of the subtask and of its parent task as they were before the operation.
C38_OneUndoRestoresBothFlags ==
  (lastOp = "executeUndo" /\ probe.completion # <<>>) =>
    LET c == probe.completion
    IN /\ RowOf(db.subtasks, c.id).completed = RowOf(c.before.subtasks, c.id).completed
       /\ RowOf(db.tasks, "T1").completed = RowOf(c.before.tasks, "T1").completed

\* ------------------------------------------------------------------------
\* App.tsx: the debounced save of milestone positions.
\* app.timer is positionSaveTimerRef: the pending timeout with the id and the
\* position its callback closes over, or NoTimer; app.reported[id] is the last
\* position the canvas reported for the milestone (NoPos before the first),
\* app.sent the updateMilestone requests issued so far.
\* ------------------------------------------------------------------------
MaxPositionChanges == 3

NoTimer == [id |-> None, pos |-> NoPos]

\* where a milestone is dropped
DropPositions == {At(100 * Scale, 100 * Scale), At(60 * Scale, 200 * Scale)}

InitSave ==
  /\ Unmounted
  /\ lastOp = "module"
  /\ limits = [commits |-> MaxPositionChanges, ticks |-> 0, pointerEvents |-> 0]
  /\ undoActions = <<>>
  /\ db = NoDb
  /\ app = [timer |-> NoTimer, reported |-> [m \in Milestones |-> NoPos], sent |-> {}]
  /\ probe = NoProbe

\* onMilestonePositionChange(node.id, node.x, node.y) of the pointerup handler:
\* clearTimeout on the pending timer, whichever milestone it was set for, and a
\* new timeout of 500 ms
handleMilestonePositionChange(id, pos) ==
  /\ commits < limits.commits
  /\ app' = [app EXCEPT !.timer = [id |-> id, pos |-> pos], !.reported[id] = pos]
  /\ commits' = commits + 1
  /\ lastOp' = "positionChange"
  /\ UNCHANGED <<canvasVars, inputVars, phase, preStep, ticks, pointerEvents, limits,
                 undoActions, db, probe>>

\* the timeout callback: api.updateMilestone(id, { x, y })
SaveTimerFires ==
  /\ app.timer # NoTimer
  /\ app' = [app EXCEPT !.timer = NoTimer, !.sent = @ \cup {app.timer}]
  /\ lastOp' = "updateMilestone"
  /\ UNCHANGED <<canvasVars, inputVars, phase, preStep, ticks, commits, pointerEvents, limits,
                 undoActions, db, probe>>

NextSave ==
  \/ \E id \in Milestones, pos \in DropPositions : handleMilestonePositionChange(id, pos)
  \/ SaveTimerFires

\* a timeout that is not cleared fires
SpecSave == InitSave /\ [][NextSave]_vars /\ WF_vars(SaveTimerFires)

\* C39: every position reported for a milestone after a drag release is
\* eventually sent to the backend, unless a later position reported for the
\* same milestone supersedes it, also when another milestone is moved within
\* the 500 ms of the debounce.
C39_EveryPositionIsSaved ==
  \A id \in Milestones, pos \in DropPositions :
    (app.reported[id] = pos) ~> ([id |-> id, pos |-> pos] \in app.sent \/ app.reported[id] # pos)

====
